---- MODULE Spec2Model ----
(***************************************************************************)
(* Run lifecycle and state persistence of the Target shopping automation.  *)
(*                                                                         *)
(* The run store (src/src/run_manager.ts) keeps every run in one JSON     *)
(* document that each operation reads whole and rewrites whole.  The HTTP *)
(* server (src/server.ts), the item-processing script                     *)
(* (src/unnamed/part_000) and the checkout script (src/checkout_script.ts)*)
(* are separate operating-system processes that share that document.      *)
(***************************************************************************)
EXTENDS Integers, Sequences, FiniteSets, TLC

\* ------------------------------------------------------------------ bounds
\* Number of trigger requests (and so of task slots) the model follows.
MaxRuns ==
    2
\* Largest number of entries in the body of a trigger request.
MaxItems ==
    2
\* The same when several runs are followed at once.
SharedMaxItems ==
    1
\* Date.now() takes the values 0..MaxClock.
MaxClock ==
    1
\* Number of distinct 5-character suffixes Math.random() can yield.
NumSuffix ==
    2
\* Number of direct calls of the store API that are followed.
MaxCalls ==
    4

\* ------------------------------------------------------------------ types
RunState ==
    {"pending", "running", "cart_ready", "checkout_started",
     "checkout_complete", "checkout_failed", "processing_failed"}

Suffixes ==
    0 .. (NumSuffix - 1)

\* `run_${Date.now().toString(36)}_${Math.random().toString(36).substring(2, 7)}`:
\* the string is determined by, and determines, the pair (now, suffix).
RunIdOf(now, sfx) ==
    now * NumSuffix + sfx

RunIds ==
    0 .. ((MaxClock + 1) * NumSuffix - 1)

\* An id createRun never produces ("run_nonexistent").
NoId ==
    -1

\* RunData.sessionId is optional: absent until updateRunSessionId sets it.
NoSession ==
    "none"

Sessions ==
    {"s1", "s2"}

\* product_title of a request entry; "" stands for a missing title.
Titles ==
    {"", "milk"}

\* Request bodies: arrays of 0..max entries.
Bodies(max) ==
    UNION {[1 .. n -> Titles] : n \in 0 .. max}

\* server.ts: req.body.map(item => ({name, quantity, url})).filter(item => item.name)
MapItem(title) ==
    [name |-> title, quantity |-> 1]

HasName(item) ==
    item.name # ""

ItemsOfBody(body) ==
    SelectSeq([i \in 1 .. Len(body) |-> MapItem(body[i])], HasName)

EmptyRuns ==
    <<>>

\* ------------------------------------------------------- the state document
VARIABLES
    fileState,   \* "absent" | "empty" | "corrupt" | "torn" | "valid": what data/runs.json holds
    fileRuns,    \* the last complete collection written to data/runs.json
    clock,       \* the value Date.now() had when it was last read
    ret,         \* what the last direct call of the store API returned
    pc,          \* position of each handler and script
    phase,       \* "call" | "trunc" | "flush": where a process is inside writeState
    buf,         \* the collection a process is about to write
    rid,         \* per slot: the run id createRun returned (runId argument of the scripts)
    items,       \* per slot: the items of the request (the hand-off file)
    resp,        \* per handler: HTTP status of its last response
    list,        \* per slot: the ShoppingList of the item-processing script
    idx,         \* per slot: loop index i of the item-processing script (1-based)
    acquired,    \* per script: initializeStagehand has returned
    closes,      \* per script: number of stagehand.close() invocations
    note,        \* per process: the notification it sends on its next step
    notified,    \* per slot: the kinds of notification sent so far
    ack,         \* per run id: the record written by the last completed operation on it
    isolated,    \* the execution is about one run only
    co,          \* per slot: the checkout attempt of the checkout script
    faulty,      \* writes of the state file can fail (disk full, no permission)
    copy,        \* the array the last getAllItems returned: references to item objects
    summary,     \* what the last getSummary returned
    req,         \* the HTTP request the server received last, and how far it got
    API_KEY,     \* process.env.API_KEY
    page         \* the call of an automation function on the browser page, step by step

vars ==
    <<fileState, fileRuns, clock, ret, pc, phase, buf, rid, items, resp, list, idx,
      acquired, closes, note, notified, ack, isolated, co, faulty, copy, summary, req,
      API_KEY, page>>

\* readState: {} when the file is missing, empty or does not parse.
readState ==
    IF fileState = "valid" THEN fileRuns ELSE EmptyRuns

Put(runs, id, rec) ==
    [x \in (DOMAIN runs) \cup {id} |-> IF x = id THEN rec ELSE runs[x]]

NewRun(id, its, now) ==
    [id |-> id, items |-> its, status |-> "pending", timestamp |-> now,
     sessionId |-> NoSession, successCount |-> 0, failureCount |-> 0,
     failureReasons |-> <<>>]

\* createRun: runs[runId] = {...}; no check of items, none of an existing key.
createRun(runs, its, now, sfx) ==
    Put(runs, RunIdOf(now, sfx), NewRun(RunIdOf(now, sfx), its, now))

\* getRun: runs[runId] || null.
Found(runs, id) ==
    id \in DOMAIN runs

\* An updateRunStatus that leaves a completed checkout as it is.
updateRunStatusChecked(runs, id, status) ==
    IF Found(runs, id) /\ runs[id].status # "checkout_complete"
    THEN [runs EXCEPT ![id].status = status]
    ELSE runs

updateRunStatus(runs, id, status) ==
    IF Found(runs, id) THEN [runs EXCEPT ![id].status = status] ELSE runs

\* An updateRunStatus that answers true whether or not the run exists.
updateRunStatusAlwaysTrue(runs, id) ==
    "true"

\* What updateRunStatus returns: true after the write, false when the run is missing.
updateRunStatusResult(runs, id) ==
    IF Found(runs, id) THEN "true" ELSE "false"

\* An updateRunSessionId that sets the session of every run of the collection.
updateRunSessionIdOfAll(runs, id, sessionId) ==
    IF Found(runs, id) THEN [x \in DOMAIN runs |-> [runs[x] EXCEPT !.sessionId = sessionId]]
    ELSE runs

updateRunSessionId(runs, id, sessionId) ==
    IF Found(runs, id) THEN [runs EXCEPT ![id].sessionId = sessionId] ELSE runs

\* A recordItemSuccess that leaves the counter as it is.
recordItemSuccessIdle(runs, id) ==
    runs

recordItemSuccess(runs, id) ==
    IF Found(runs, id)
    THEN [runs EXCEPT ![id].successCount = @ + 1]
    ELSE runs

\* A recordItemFailure that appends the reason and forgets the counter.
recordItemFailureNoCount(runs, id, reason) ==
    IF Found(runs, id)
    THEN [runs EXCEPT ![id].failureReasons = IF reason # "" THEN Append(@, reason) ELSE @]
    ELSE runs

\* A recordItemFailure that appends the reason whether or not it is empty.
recordItemFailureAlwaysAppends(runs, id, reason) ==
    IF Found(runs, id)
    THEN [runs EXCEPT ![id].failureCount = @ + 1,
                      ![id].failureReasons = Append(@, reason)]
    ELSE runs

recordItemFailure(runs, id, reason) ==
    IF Found(runs, id)
    THEN [runs EXCEPT ![id].failureCount = @ + 1,
                      ![id].failureReasons = IF reason # "" THEN Append(@, reason) ELSE @]
    ELSE runs

\* ------------------------------------------------------------- processes
Slots ==
    1 .. MaxRuns

\* "trig": a /trigger-shopping-run handler, "chk": a /checkout/:runId handler (both
\* inside the server process); "shop": an item-processing script, "cos": a checkout
\* script (each its own process).
Kinds ==
    {"trig", "shop", "chk", "cos"}

Procs ==
    Kinds \X Slots

P(k, s) ==
    <<k, s>>

\* Handlers run on the server's single thread: between two awaits a handler is not
\* interleaved with another handler.
TrigSync ==
    {"create", "set_running", "fail"}

\* A checkout handler that yields to other requests between its status check and its
\* update of the status.
ChkSyncAfterAwait ==
    {"notify", "rollback"}

ChkSync ==
    {"advance", "notify", "rollback"}

ServerBusy ==
    \E s \in Slots : pc[P("trig", s)] \in TrigSync \/ pc[P("chk", s)] \in ChkSync

Booted ==
    fileState # "absent"

Busy(s) ==
    \/ pc[P("trig", s)] \notin {"idle", "done"}
    \/ pc[P("shop", s)] \notin {"off", "done"}
    \/ pc[P("chk", s)] # "idle"
    \/ pc[P("cos", s)] \notin {"off", "done"}

\* In an isolated execution the store serves one run: no request is made for a second
\* one.
Admit(s) ==
    isolated => \A t \in Slots \ {s} : rid[t] = NoId /\ ~Busy(t)

\* Results of a searchAndAddToCart that can also leave the item to be tried again.
OutcomesWithPending ==
    {[status |-> "ADDED", message |-> ""],
     [status |-> "PENDING", message |-> ""],
     [status |-> "ERROR", message |-> "timeout"]}

\* ProductStatus and the results of searchAndAddToCart (status, message).
Outcomes ==
    {[status |-> "ADDED", message |-> ""],
     [status |-> "NOT_FOUND", message |-> "No results found"],
     [status |-> "OUT_OF_STOCK", message |-> ""],
     [status |-> "ERROR", message |-> "timeout"]}

\* createShoppingList: one PENDING entry per item that has a name.
createShoppingList(its) ==
    [i \in 1 .. Len(SelectSeq(its, HasName)) |->
        [name |-> SelectSeq(its, HasName)[i].name, status |-> "PENDING", notes |-> ""]]

\* An updateStatus that takes an index past the end for the last item.
updateStatusClamped(l, i, status, notes) ==
    IF i >= 1 /\ Len(l) >= 1
    THEN [l EXCEPT ![IF i <= Len(l) THEN i ELSE Len(l)].status = status]
    ELSE l

\* ShoppingList.updateStatus: out of range is a no-op; notes only when non-empty.
updateStatus(l, i, status, notes) ==
    IF i >= 1 /\ i <= Len(l)
    THEN [l EXCEPT ![i].status = status,
                   ![i].notes = IF notes # "" THEN notes ELSE @]
    ELSE l

CountStatus(l, sts) ==
    Cardinality({i \in 1 .. Len(l) : l[i].status \in sts})

\* A getSummary whose failed leaves out the items in ERROR.
getSummaryErrorsUncounted(l) ==
    [total |-> Len(l),
     added |-> CountStatus(l, {"ADDED"}),
     failed |-> CountStatus(l, {"NOT_FOUND", "OUT_OF_STOCK"}),
     pending |-> CountStatus(l, {"PENDING"})]

\* ShoppingList.getSummary
getSummary(l) ==
    [total |-> Len(l),
     added |-> CountStatus(l, {"ADDED"}),
     failed |-> CountStatus(l, {"NOT_FOUND", "ERROR", "OUT_OF_STOCK"}),
     pending |-> CountStatus(l, {"PENDING"})]

\* A reason that is the message of the result as it is, empty or not.
ReasonOfMessage(o) ==
    o.message

\* result.message || 'Unknown error'
ReasonOf(o) ==
    IF o.message # "" THEN o.message ELSE "Unknown error"

\* The status each updateRunStatus call site writes.
\* A trigger handler whose catch block puts the run back to pending.
TrigStatusAtFailPending(pcv) ==
    CASE pcv = "set_running" -> "running"
      [] pcv = "fail" -> "pending"

TrigStatusAt(pcv) ==
    CASE pcv = "set_running" -> "running"
      [] pcv = "fail" -> "processing_failed"

\* A script whose catch block leaves the run ready for checkout.
ShopStatusAtCatchReady(pcv) ==
    CASE pcv = "tmpfail" -> "processing_failed"
      [] pcv = "finalize" -> "cart_ready"
      [] pcv = "catch" -> "cart_ready"
      [] pcv = "fatal" -> "processing_failed"

\* A script that ends its loop leaving the run in running.
ShopStatusAtNotReady(pcv) ==
    CASE pcv = "tmpfail" -> "processing_failed"
      [] pcv = "finalize" -> "running"
      [] pcv = "catch" -> "processing_failed"
      [] pcv = "fatal" -> "processing_failed"

\* A script that leaves the run in running when the hand-off file cannot be used.
ShopStatusAtTmpfailRunning(pcv) ==
    CASE pcv = "tmpfail" -> "running"
      [] pcv = "finalize" -> "cart_ready"
      [] pcv = "catch" -> "processing_failed"
      [] pcv = "fatal" -> "processing_failed"

ShopStatusAt(pcv) ==
    CASE pcv = "tmpfail" -> "processing_failed"
      [] pcv = "finalize" -> "cart_ready"
      [] pcv = "catch" -> "processing_failed"
      [] pcv = "fatal" -> "processing_failed"

ChkStatusAt(pcv) ==
    CASE pcv = "advance" -> "checkout_started"
      [] pcv = "rollback" -> "cart_ready"

\* A runCheckout that takes a false result of processCheckout for a success.
CosStatusAtIgnoringResult(pcv) ==
    CASE pcv = "mark" -> "checkout_started"
      [] pcv = "nopay" -> "checkout_failed"
      [] pcv = "complete" -> "checkout_complete"
      [] pcv = "simulated" -> "checkout_complete"
      [] pcv = "failed1" -> "checkout_failed"
      [] pcv = "failed2" -> "checkout_complete"

CosStatusAt(pcv) ==
    CASE pcv = "mark" -> "checkout_started"
      [] pcv = "nopay" -> "checkout_failed"
      [] pcv = "complete" -> "checkout_complete"
      [] pcv = "simulated" -> "checkout_complete"
      [] pcv = "failed1" -> "checkout_failed"
      [] pcv = "failed2" -> "checkout_failed"

StatusPcs ==
    [trig |-> {"set_running", "fail"},
     shop |-> {"tmpfail", "finalize", "catch", "fatal"},
     chk |-> {"advance", "rollback"},
     cos |-> {"mark", "nopay", "complete", "simulated", "failed1", "failed2"}]

StatusAt(k, pcv) ==
    CASE k = "trig" -> TrigStatusAt(pcv)
      [] k = "shop" -> ShopStatusAt(pcv)
      [] k = "chk" -> ChkStatusAt(pcv)
      [] k = "cos" -> CosStatusAt(pcv)

\* Where each process continues when the store operation at pcv has returned.
TrigAfter(pcv) ==
    CASE pcv = "create" -> "set_running"
      [] pcv = "set_running" -> "read_back"
      [] pcv = "fail" -> "done"

ShopAfter(pcv, more) ==
    CASE pcv \in {"rec_ok", "rec_fail"} -> (IF more THEN "item" ELSE "finalize")
      [] pcv = "finalize" -> "close"
      [] pcv = "catch" -> "close"
      [] pcv = "fatal" -> "exit"
      [] pcv = "tmpfail" -> "done"

ChkAfter(pcv) ==
    CASE pcv = "advance" -> "notify"
      [] pcv = "rollback" -> "idle"

CosAfter(pcv) ==
    CASE pcv = "mark" -> "acquire"
      [] pcv = "nopay" -> "nopay_close"
      [] pcv = "complete" -> "close"
      [] pcv = "simulated" -> "close"
      [] pcv = "failed1" -> "failed2"
      [] pcv = "failed2" -> "close"

After(p) ==
    CASE p[1] = "trig" -> TrigAfter(pc[p])
      [] p[1] = "shop" -> ShopAfter(pc[p], idx[p[2]] <= Len(list[p[2]]))
      [] p[1] = "chk" -> ChkAfter(pc[p])
      [] p[1] = "cos" -> CosAfter(pc[p])

\* The notification a process sends right after the store operation at pcv.
NoteAfter(k, pcv) ==
    CASE k = "trig" /\ pcv = "set_running" -> "run_started"
      [] k = "trig" /\ pcv = "fail" -> "error"
      [] k = "shop" /\ pcv = "rec_ok" -> "item_added"
      [] k = "shop" /\ pcv = "rec_fail" -> "item_failed"
      [] k = "shop" /\ pcv = "finalize" -> "cart_ready"
      [] k = "shop" /\ pcv \in {"catch", "fatal"} -> "error"
      [] k = "chk" /\ pcv = "rollback" -> "error"
      [] k = "cos" /\ pcv = "complete" -> "checkout_complete"
      [] k = "cos" /\ pcv = "simulated" -> "checkout_simulated"
      [] k = "cos" /\ pcv = "failed1" -> "checkout_failed"
      [] OTHER -> ""

\* The response a handler gives when its last store operation has returned.
RespAfter(k, pcv, old) ==
    IF pcv \in {"fail", "rollback"} /\ k \in {"trig", "chk"} THEN 500 ELSE old

Sent(s, kinds) ==
    [notified EXCEPT ![s] = @ \cup (kinds \ {""})]

\* Where a handler or script takes no further step of its own.
Rest ==
    {"idle", "done"}

\* The notification sent in the same step as the return of the store operation: the
\* one of a process that then rests.
NoteNow(p) ==
    IF After(p) \in Rest THEN NoteAfter(p[1], pc[p]) ELSE ""

\* A store operation returns to its caller.
Return(p) ==
    /\ pc' = [pc EXCEPT ![p] = After(p)]
    /\ note' = [note EXCEPT ![p] = IF After(p) \in Rest THEN "" ELSE NoteAfter(p[1], pc[p])]
    /\ resp' = [resp EXCEPT ![p] = RespAfter(p[1], pc[p], @)]

\* writeState, first half: fs.writeFileSync opens the file, truncating it.
BeginWrite(p, runs) ==
    /\ phase' = [phase EXCEPT ![p] = "trunc"]
    /\ buf' = [buf EXCEPT ![p] = runs]

Trunc(p) ==
    /\ phase[p] = "trunc"
    /\ fileState' = "torn"
    /\ phase' = [phase EXCEPT ![p] = "flush"]
    /\ UNCHANGED <<fileRuns, clock, ret, pc, buf, rid, items, resp, list, idx, acquired,
                   closes, note, notified, ack, isolated, co, faulty, copy, summary, req,
                   API_KEY, page>>

\* A writeState that stores only the caller's own record into the current document.
WrittenMerged(current, mine, id) ==
    IF Found(mine, id) THEN Put(current, id, mine[id]) ELSE current

\* What writeState leaves in the file: the caller's whole collection.
Written(current, mine, id) ==
    mine

\* writeState, second half: the whole document is in the file; the operation returns.
Flush(p) ==
    /\ phase[p] = "flush"
    /\ fileState' = "valid"
    /\ fileRuns' = Written(fileRuns, buf[p], rid[p[2]])
    /\ ack' = Put(ack, rid[p[2]], buf[p][rid[p[2]]])
    /\ phase' = [phase EXCEPT ![p] = "call"]
    /\ buf' = [buf EXCEPT ![p] = EmptyRuns]
    /\ Return(p)
    /\ notified' = Sent(p[2], {NoteNow(p)})
    /\ UNCHANGED <<clock, ret, rid, items, list, idx, acquired, closes, isolated, co, faulty,
                   copy, summary, req, API_KEY, page>>

\* updateRunStatus at one of its call sites: readState, then writeState if the run exists.
StatusCall(p) ==
    /\ pc[p] \in StatusPcs[p[1]]
    /\ phase[p] = "call"
    /\ IF Found(readState, rid[p[2]])
       THEN /\ BeginWrite(p, updateRunStatus(readState, rid[p[2]], StatusAt(p[1], pc[p])))
            /\ notified' = Sent(p[2], {note[p]})
            /\ note' = [note EXCEPT ![p] = ""]
            /\ UNCHANGED <<pc, resp>>
       ELSE /\ Return(p)
            /\ notified' = Sent(p[2], {note[p], NoteNow(p)})
            /\ UNCHANGED <<phase, buf>>
    /\ UNCHANGED <<fileState, fileRuns, clock, ret, rid, items, list, idx, acquired, closes,
                   ack, isolated, co, faulty, copy, summary, req, API_KEY, page>>

\* ------------------------------------------------ server: /trigger-shopping-run
\* Validation of the body, then createRun (its readState and the start of its write).
\* Date.now() is read here and nowhere else: it has advanced to some now >= clock.
TriggerRequest(s) ==
    /\ pc[P("trig", s)] = "idle"
    /\ Booted /\ ~ServerBusy /\ Admit(s)
    /\ \E body \in Bodies(IF isolated THEN MaxItems ELSE SharedMaxItems), now \in clock .. MaxClock, sfx \in Suffixes :
         IF Len(body) = 0 \/ Len(ItemsOfBody(body)) = 0
         THEN /\ resp' = [resp EXCEPT ![P("trig", s)] = 400]
              /\ UNCHANGED <<clock, pc, phase, buf, rid, items>>
         ELSE /\ isolated => \A t \in Slots : rid[t] # RunIdOf(now, sfx)
              /\ clock' = now
              /\ rid' = [rid EXCEPT ![s] = RunIdOf(now, sfx)]
              /\ items' = [items EXCEPT ![s] = ItemsOfBody(body)]
              /\ pc' = [pc EXCEPT ![P("trig", s)] = "create"]
              /\ BeginWrite(P("trig", s), createRun(readState, ItemsOfBody(body), now, sfx))
              /\ UNCHANGED resp
    /\ UNCHANGED <<fileState, fileRuns, ret, list, idx, acquired, closes, note,
                   notified, ack, isolated, co, faulty, copy, summary, req, API_KEY, page>>

\* After `await sendRunStarted`: getRun, then the hand-off file is written.
TrigReadBack(s) ==
    /\ pc[P("trig", s)] = "read_back"
    /\ ~ServerBusy
    /\ notified' = Sent(s, {note[P("trig", s)]})
    /\ note' = [note EXCEPT ![P("trig", s)] = ""]
    /\ pc' = [pc EXCEPT ![P("trig", s)] =
                IF Found(readState, rid[s]) THEN "launch" ELSE "fail"]
    /\ UNCHANGED <<fileState, fileRuns, clock, ret, phase, buf, rid, items, resp, list, idx,
                   acquired, closes, ack, isolated, co, faulty, copy, summary, req, API_KEY, page>>

\* After `await delay(100)`: execSync starts the item-processing script, or throws.
TrigLaunch(s) ==
    /\ pc[P("trig", s)] = "launch"
    /\ ~ServerBusy
    /\ \E ok \in BOOLEAN :
         IF ok
         THEN /\ pc' = [pc EXCEPT ![P("trig", s)] = "done", ![P("shop", s)] = "start"]
              /\ resp' = [resp EXCEPT ![P("trig", s)] = 202]
         ELSE /\ pc' = [pc EXCEPT ![P("trig", s)] = "fail"]
              /\ UNCHANGED resp
    /\ UNCHANGED <<fileState, fileRuns, clock, ret, phase, buf, rid, items, list, idx,
                   acquired, closes, note, notified, ack, isolated, co, faulty,
                   copy, summary, req, API_KEY, page>>

\* ------------------------------------------------ the item-processing script
\* The hand-off file is read (it may be missing or malformed), then getRun.
ShopStart(s) ==
    /\ pc[P("shop", s)] = "start"
    /\ \E tempOk \in BOOLEAN :
         IF ~tempOk
         THEN /\ notified' = Sent(s, {"error"})
              /\ pc' = [pc EXCEPT ![P("shop", s)] = "tmpfail"]
              /\ UNCHANGED list
         ELSE /\ pc' = [pc EXCEPT ![P("shop", s)] =
                          IF Found(readState, rid[s]) THEN "acquire" ELSE "done"]
              /\ list' = [list EXCEPT ![s] = createShoppingList(items[s])]
              /\ UNCHANGED notified
    /\ UNCHANGED <<fileState, fileRuns, clock, ret, phase, buf, rid, items, resp, idx,
                   acquired, closes, note, ack, isolated, co, faulty, copy, summary, req,
                   API_KEY, page>>

\* sendRunStarted, then initializeStagehand (which may throw) and the login attempt.
ShopAcquire(s) ==
    /\ pc[P("shop", s)] = "acquire"
    /\ notified' = Sent(s, {"run_started"})
    /\ \E ok \in BOOLEAN :
         IF ok
         THEN /\ acquired' = [acquired EXCEPT ![P("shop", s)] = TRUE]
              /\ idx' = [idx EXCEPT ![s] = 1]
              /\ pc' = [pc EXCEPT ![P("shop", s)] =
                          IF Len(list[s]) >= 1 THEN "item" ELSE "finalize"]
         ELSE /\ pc' = [pc EXCEPT ![P("shop", s)] = "fatal"]
              /\ UNCHANGED <<acquired, idx>>
    /\ UNCHANGED <<fileState, fileRuns, clock, ret, phase, buf, rid, items, resp, list,
                   closes, note, ack, isolated, co, faulty, copy, summary, req, API_KEY, page>>

\* One iteration of the loop: searchAndAddToCart, ShoppingList.updateStatus, then
\* recordItemSuccess or recordItemFailure (its readState and the start of its write).
ShopItem(s) ==
    /\ pc[P("shop", s)] = "item"
    /\ phase[P("shop", s)] = "call"
    /\ notified' = Sent(s, {note[P("shop", s)]})
    /\ \/ \* an exception escapes the loop body
          /\ pc' = [pc EXCEPT ![P("shop", s)] = "catch"]
          /\ note' = [note EXCEPT ![P("shop", s)] = ""]
          /\ UNCHANGED <<phase, buf, list, idx>>
       \/ \* the item is not PENDING: continue
          /\ list[s][idx[s]].status # "PENDING"
          /\ idx' = [idx EXCEPT ![s] = @ + 1]
          /\ pc' = [pc EXCEPT ![P("shop", s)] =
                      IF idx[s] + 1 <= Len(list[s]) THEN "item" ELSE "finalize"]
          /\ note' = [note EXCEPT ![P("shop", s)] = ""]
          /\ UNCHANGED <<phase, buf, list>>
       \/ /\ list[s][idx[s]].status = "PENDING"
          /\ \E o \in Outcomes :
               LET recpc == IF o.status = "ADDED" THEN "rec_ok" ELSE "rec_fail"
                   runs2 == IF o.status = "ADDED"
                            THEN recordItemSuccess(readState, rid[s])
                            ELSE recordItemFailure(readState, rid[s], ReasonOf(o))
               IN  /\ list' = [list EXCEPT ![s] = updateStatus(@, idx[s], o.status, o.message)]
                   /\ idx' = [idx EXCEPT ![s] = @ + 1]
                   /\ IF Found(readState, rid[s])
                      THEN /\ BeginWrite(P("shop", s), runs2)
                           /\ pc' = [pc EXCEPT ![P("shop", s)] = recpc]
                           /\ note' = [note EXCEPT ![P("shop", s)] = ""]
                      ELSE /\ pc' = [pc EXCEPT ![P("shop", s)] =
                                       ShopAfter(recpc, idx[s] + 1 <= Len(list[s]))]
                           /\ note' = [note EXCEPT ![P("shop", s)] = NoteAfter("shop", recpc)]
                           /\ UNCHANGED <<phase, buf>>
    /\ UNCHANGED <<fileState, fileRuns, clock, ret, rid, items, resp, acquired, closes, ack,
                   isolated, co, faulty, copy, summary, req, API_KEY, page>>

\* finally: stagehand.close(); then the final getRun, for the log only.  The process
\* ends and its ShoppingList with it.
ShopClose(s) ==
    /\ pc[P("shop", s)] = "close"
    /\ notified' = Sent(s, {note[P("shop", s)]})
    /\ note' = [note EXCEPT ![P("shop", s)] = ""]
    /\ closes' = [closes EXCEPT ![P("shop", s)] = @ + 1]
    /\ pc' = [pc EXCEPT ![P("shop", s)] = "done"]
    /\ list' = [list EXCEPT ![s] = <<>>]
    /\ idx' = [idx EXCEPT ![s] = 1]
    /\ UNCHANGED <<fileState, fileRuns, clock, ret, phase, buf, rid, items, resp,
                   acquired, ack, isolated, co, faulty, copy, summary, req, API_KEY, page>>

\* The handler of processShoppingList(...).catch: sendError, process.exit(1).
ShopExit(s) ==
    /\ pc[P("shop", s)] = "exit"
    /\ notified' = Sent(s, {note[P("shop", s)]})
    /\ note' = [note EXCEPT ![P("shop", s)] = ""]
    /\ pc' = [pc EXCEPT ![P("shop", s)] = "done"]
    /\ UNCHANGED <<fileState, fileRuns, clock, ret, phase, buf, rid, items, resp, list, idx,
                   acquired, closes, ack, isolated, co, faulty, copy, summary, req, API_KEY, page>>

\* ------------------------------------------------ server: /checkout/:runId
\* A checkout script that has executed no step yet.
NoAttempt ==
    [completeOrder |-> FALSE, done |-> <<>>, threw |-> FALSE, reached |-> FALSE]

\* An endpoint that also starts a checkout for a run whose processing failed.
CheckoutAllowedAfterFailure(status) ==
    status \in {"cart_ready", "processing_failed"}

\* server.ts:142: the only status from which the endpoint starts a checkout.
CheckoutAllowed(status) ==
    status = "cart_ready"

\* A checkout script that accepts a run in any status.
ScriptAllowedAlways(status) ==
    TRUE

\* A checkout script accepts a run in one of these (checkout_script.ts:37).
ScriptAllowed(status) ==
    status \in {"checkout_started", "cart_ready"}

\* getRun and the status check; 404 and 400 end the request.
CheckoutRequest(s) ==
    /\ pc[P("chk", s)] = "idle"
    /\ Booted /\ ~ServerBusy /\ Admit(s)
    /\ IF ~Found(readState, rid[s])
       THEN /\ resp' = [resp EXCEPT ![P("chk", s)] = 404]
            /\ UNCHANGED <<pc, notified>>
       ELSE IF ~CheckoutAllowed(readState[rid[s]].status)
       THEN /\ resp' = [resp EXCEPT ![P("chk", s)] = 400]
            /\ notified' = Sent(s, {"error"})
            /\ UNCHANGED pc
       ELSE /\ pc' = [pc EXCEPT ![P("chk", s)] = "advance"]
            /\ UNCHANGED <<resp, notified>>
    /\ UNCHANGED <<fileState, fileRuns, clock, ret, phase, buf, rid, items, list, idx,
                   acquired, closes, note, ack, isolated, co, faulty, copy, summary, req,
                   API_KEY, page>>

\* `await sendSlackUpdate(...)`: src/src/slack.ts exports no sendSlackUpdate, so the
\* call throws a TypeError inside the try; the slack module of src/unnamed/part_003
\* exports it, and then the call returns.
ChkNotify(s) ==
    /\ pc[P("chk", s)] = "notify"
    /\ \E throws \in BOOLEAN :
         IF throws
         THEN /\ pc' = [pc EXCEPT ![P("chk", s)] = "rollback"]
              /\ UNCHANGED notified
         ELSE /\ pc' = [pc EXCEPT ![P("chk", s)] = "launch"]
              /\ notified' = Sent(s, {"checkout_initiated"})
    /\ UNCHANGED <<fileState, fileRuns, clock, ret, phase, buf, rid, items, resp, list, idx,
                   acquired, closes, note, ack, isolated, co, faulty, copy, summary, req,
                   API_KEY, page>>

\* After `await delay(100)`: execSync starts the checkout script, or throws.
ChkLaunch(s) ==
    /\ pc[P("chk", s)] = "launch"
    /\ ~ServerBusy
    /\ \/ /\ pc[P("cos", s)] \in {"off", "done"}
          /\ pc' = [pc EXCEPT ![P("chk", s)] = "idle", ![P("cos", s)] = "start"]
          /\ resp' = [resp EXCEPT ![P("chk", s)] = 202]
          /\ acquired' = [acquired EXCEPT ![P("cos", s)] = FALSE]
          /\ closes' = [closes EXCEPT ![P("cos", s)] = 0]
          /\ co' = [co EXCEPT ![s] = NoAttempt]
       \/ /\ pc' = [pc EXCEPT ![P("chk", s)] = "rollback"]
          /\ UNCHANGED <<resp, acquired, closes, co>>
    /\ UNCHANGED <<fileState, fileRuns, clock, ret, phase, buf, rid, items, list, idx,
                   note, notified, ack, isolated, faulty, copy, summary, req, API_KEY, page>>

\* ------------------------------------------------ the checkout script
\* getPaymentDetailsFromEnv: whether card number, expiration and CVV are all set, and
\* COMPLETE_ORDER === 'true'.
PaymentDetails ==
    [cardComplete : BOOLEAN, completeOrder : BOOLEAN]

\* The automation steps of processCheckout before the order is placed, in order: the
\* cart page and the delivery option, the three ways of clicking the checkout button,
\* the check of the page reached, the card fields, 'Save and continue'.
CheckoutSteps ==
    <<"goto_cart", "click_checkout", "check_page", "fill_card", "save_and_continue">>

\* A processCheckout that places the order whatever COMPLETE_ORDER says.
PlacesOrderAlways(completeOrder) ==
    TRUE

\* if (paymentDetails.completeOrder): the 'Place your order' button is clicked.
PlacesOrder(completeOrder) ==
    completeOrder

\* The step processCheckout executes after the steps in done; "none" at its end.
NextStep(done, completeOrder) ==
    IF Len(done) < Len(CheckoutSteps) THEN CheckoutSteps[Len(done) + 1]
    ELSE IF Len(done) = Len(CheckoutSteps) /\ PlacesOrder(completeOrder) THEN "place_order"
    ELSE "none"

\* getRun and the state check; process.exit(1) when the run is missing or not ready.
CosStart(s) ==
    /\ pc[P("cos", s)] = "start"
    /\ pc' = [pc EXCEPT ![P("cos", s)] =
                IF ~Found(readState, rid[s]) THEN "done"
                ELSE IF ~ScriptAllowed(readState[rid[s]].status) THEN "done"
                ELSE IF readState[rid[s]].status = "cart_ready" THEN "mark"
                ELSE "acquire"]
    /\ UNCHANGED <<fileState, fileRuns, clock, ret, phase, buf, rid, items, resp, list, idx,
                   acquired, closes, note, notified, ack, isolated, co, faulty,
                   copy, summary, req, API_KEY, page>>

\* initializeStagehand (which may throw: the .catch handler only exits), the login
\* attempt, then the check of the payment details.
CosAcquire(s) ==
    /\ pc[P("cos", s)] = "acquire"
    /\ \E ok \in BOOLEAN, details \in PaymentDetails :
         IF ok
         THEN /\ acquired' = [acquired EXCEPT ![P("cos", s)] = TRUE]
              /\ pc' = [pc EXCEPT ![P("cos", s)] =
                          IF details.cardComplete THEN "steps" ELSE "nopay"]
              /\ co' = [co EXCEPT ![s].completeOrder = details.completeOrder]
         ELSE /\ pc' = [pc EXCEPT ![P("cos", s)] = "done"]
              /\ UNCHANGED <<acquired, co>>
    /\ UNCHANGED <<fileState, fileRuns, clock, ret, phase, buf, rid, items, resp, list, idx,
                   closes, note, notified, ack, isolated, faulty, copy, summary, req, API_KEY,
                   page>>

\* An incomplete-payment path without process.exit(1): the finally block runs too.
AfterNoPayCloseFinally ==
    "close"

\* Where the script goes after the stagehand.close() of the incomplete-payment path:
\* process.exit(1) ends the process there, before the finally block.
AfterNoPayClose ==
    "done"

\* checkout_script.ts:67-68
CosNoPayClose(s) ==
    /\ pc[P("cos", s)] = "nopay_close"
    /\ closes' = [closes EXCEPT ![P("cos", s)] = @ + 1]
    /\ pc' = [pc EXCEPT ![P("cos", s)] = AfterNoPayClose]
    /\ co' = [co EXCEPT ![s] = NoAttempt]
    /\ UNCHANGED <<fileState, fileRuns, clock, ret, phase, buf, rid, items, resp, list, idx,
                   acquired, note, notified, ack, isolated, faulty, copy, summary, req,
                   API_KEY, page>>

\* processCheckout, one automation step at a time.  The step throws (the catch block
\* marks the run, then runCheckout marks it again: "failed1"), or it completes; the
\* check of the page may find that the checkout page was not reached (processCheckout
\* returns false: "failed2").  After "save_and_continue" the order is placed or not.
CosSteps(s) ==
    /\ pc[P("cos", s)] = "steps"
    /\ LET step == NextStep(co[s].done, co[s].completeOrder)
       IN  \/ /\ co' = [co EXCEPT ![s].threw = TRUE]
              /\ pc' = [pc EXCEPT ![P("cos", s)] = "failed1"]
           \/ /\ step = "check_page"
              /\ co' = [co EXCEPT ![s].done = Append(@, step)]
              /\ pc' = [pc EXCEPT ![P("cos", s)] = "failed2"]
           \/ /\ co' = [co EXCEPT ![s].done = Append(@, step),
                                   ![s].reached = @ \/ step = "check_page"]
              /\ pc' = [pc EXCEPT ![P("cos", s)] =
                          IF NextStep(Append(co[s].done, step), co[s].completeOrder) # "none"
                          THEN "steps"
                          ELSE IF step = "place_order" THEN "complete" ELSE "simulated"]
    /\ UNCHANGED <<fileState, fileRuns, clock, ret, phase, buf, rid, items, resp, list, idx,
                   acquired, closes, note, notified, ack, isolated, faulty,
                   copy, summary, req, API_KEY, page>>

\* finally: stagehand.close().  The process ends and its memory with it.
CosClose(s) ==
    /\ pc[P("cos", s)] = "close"
    /\ notified' = Sent(s, {note[P("cos", s)]})
    /\ note' = [note EXCEPT ![P("cos", s)] = ""]
    /\ closes' = [closes EXCEPT ![P("cos", s)] = @ + 1]
    /\ pc' = [pc EXCEPT ![P("cos", s)] = "done"]
    /\ co' = [co EXCEPT ![s] = NoAttempt]
    /\ UNCHANGED <<fileState, fileRuns, clock, ret, phase, buf, rid, items, resp, list, idx,
                   acquired, ack, isolated, faulty, copy, summary, req, API_KEY, page>>

\* `npm run start:checkout -- RUN_ID`: the checkout script started from the command
\* line, for whatever run and in whatever status.
CosDirect(s) ==
    /\ pc[P("cos", s)] \in {"off", "done"}
    /\ Admit(s)
    /\ pc' = [pc EXCEPT ![P("cos", s)] = "start"]
    /\ acquired' = [acquired EXCEPT ![P("cos", s)] = FALSE]
    /\ closes' = [closes EXCEPT ![P("cos", s)] = 0]
    /\ co' = [co EXCEPT ![s] = NoAttempt]
    /\ UNCHANGED <<fileState, fileRuns, clock, ret, phase, buf, rid, items, resp, list, idx,
                   note, notified, ack, isolated, faulty, copy, summary, req, API_KEY, page>>

\* ------------------------------------------------ environment
\* initializeStateFile at server start: writeState({}) when the file does not exist.
Boot ==
    /\ fileState = "absent"
    /\ fileState' = "valid"
    /\ fileRuns' = EmptyRuns
    /\ UNCHANGED <<clock, ret, pc, phase, buf, rid, items, resp, list, idx, acquired,
                   closes, note, notified, ack, isolated, co, faulty, copy, summary, req,
                   API_KEY, page>>

\* getSummary has not been called.
NoSummary ==
    [total |-> 0, added |-> 0, failed |-> 0, pending |-> 0]

\* An absent query parameter or header, an unset environment variable (undefined).
NoKey ==
    "undefined"

\* No request has been received.
NoReq ==
    [route |-> "none", query |-> NoKey, header |-> NoKey, stage |-> "none", code |-> 0]

\* What window.location.href contains: "/cart", "/checkout".
NoUrl ==
    [cart |-> FALSE, checkout |-> FALSE]

\* No automation function has been called on the page.
NoPage ==
    [fn |-> "none", done |-> <<>>, url |-> NoUrl, hasResults |-> FALSE, inStock |-> FALSE,
     completeOrder |-> FALSE, result |-> "none", message |-> "", threw |-> FALSE]

\* The value of API_KEY on a server that is configured.
ConfiguredKey ==
    "k1"

NoRet ==
    [op |-> "none", id |-> NoId, found |-> FALSE, out |-> "none", n |-> 0, arg |-> "", k |-> 0]

InitProcs ==
    /\ pc = [p \in Procs |-> IF p[1] \in {"trig", "chk"} THEN "idle" ELSE "off"]
    /\ phase = [p \in Procs |-> "call"]
    /\ buf = [p \in Procs |-> EmptyRuns]
    /\ rid = [s \in Slots |-> NoId]
    /\ items = [s \in Slots |-> <<>>]
    /\ resp = [p \in Procs |-> 0]
    /\ list = [s \in Slots |-> <<>>]
    /\ idx = [s \in Slots |-> 1]
    /\ acquired = [p \in Procs |-> FALSE]
    /\ closes = [p \in Procs |-> 0]
    /\ note = [p \in Procs |-> ""]
    /\ notified = [s \in Slots |-> {}]
    /\ ack = EmptyRuns
    /\ ret = NoRet
    /\ co = [s \in Slots |-> NoAttempt]
    /\ copy = <<>>
    /\ summary = NoSummary
    /\ req = NoReq
    /\ page = NoPage

InitFile ==
    /\ fileState \in {"absent", "corrupt"}
    /\ fileRuns = EmptyRuns
    /\ clock = 0

Init ==
    InitFile /\ InitProcs /\ isolated = FALSE /\ faulty = FALSE /\ API_KEY = ConfiguredKey

InitSolo ==
    InitFile /\ InitProcs /\ isolated = TRUE /\ faulty = FALSE /\ API_KEY = ConfiguredKey

\* ------------------------------------------------ the store API, called directly
\* One process calls the exported functions of run_manager.ts one after another; each
\* call runs to its return.  ret records the call: its name, its id argument, whether
\* that id was in the store, what it returned, the number of items passed, and the
\* number of calls so far.
ApiIds ==
    RunIds \cup {NoId}

Reasons ==
    {"", "out of stock"}

Returned(op, id, found, out, n, arg) ==
    ret' = [op |-> op, id |-> id, found |-> found, out |-> out, n |-> n, arg |-> arg,
            k |-> ret.k + 1]

\* What fs.writeFileSync leaves when it throws: the file as it was (it could not be
\* opened), or a file cut short.
FailedWrites ==
    {fileState, "corrupt"}

\* A writeState that leaves an unreadable document as it is.
WriteIfReadable(runs) ==
    /\ fileState' = fileState
    /\ fileRuns' = IF fileState = "valid" THEN runs ELSE fileRuns

\* writeState as one step: no other process is there to see the file half-written.
\* An error of fs.writeFileSync is caught and logged, and writeState returns.
WriteNow(runs) ==
    \/ /\ fileState' = "valid"
       /\ fileRuns' = runs
    \/ /\ faulty
       /\ fileState' \in FailedWrites
       /\ fileRuns' = fileRuns

ApiCreateRun ==
    /\ ret.k < MaxCalls
    /\ \E s \in Slots, body \in Bodies(SharedMaxItems), now \in clock .. MaxClock,
          sfx \in Suffixes :
         /\ rid[s] = NoId
         /\ \A t \in Slots : t < s => rid[t] # NoId
         /\ clock' = now
         /\ rid' = [rid EXCEPT ![s] = RunIdOf(now, sfx)]
         /\ WriteNow(createRun(readState, ItemsOfBody(body), now, sfx))
         /\ Returned("createRun", RunIdOf(now, sfx), Found(readState, RunIdOf(now, sfx)),
                     "id", Len(ItemsOfBody(body)), "")
    /\ UNCHANGED <<pc, phase, buf, items, resp, list, idx, acquired, closes, note, notified,
                   ack, isolated, co, faulty, copy, summary, req, API_KEY, page>>

ApiGetRun ==
    /\ ret.k < MaxCalls
    /\ \E id \in ApiIds :
         Returned("getRun", id, Found(readState, id),
                  IF Found(readState, id) THEN "record" ELSE "null", 0, "")
    /\ UNCHANGED <<fileState, fileRuns, clock, pc, phase, buf, rid, items, resp, list, idx,
                   acquired, closes, note, notified, ack, isolated, co, faulty,
                   copy, summary, req, API_KEY, page>>

\* The shape shared by the four updating functions: writeState only if the run exists.
ApiUpdate(op, id, runs, out, arg) ==
    /\ ret.k < MaxCalls
    /\ IF Found(readState, id)
       THEN WriteNow(runs)
       ELSE UNCHANGED <<fileState, fileRuns>>
    /\ Returned(op, id, Found(readState, id), out, 0, arg)
    /\ UNCHANGED <<clock, pc, phase, buf, rid, items, resp, list, idx, acquired, closes,
                   note, notified, ack, isolated, co, faulty, copy, summary, req, API_KEY, page>>

ApiUpdateRunStatus ==
    \E id \in ApiIds, status \in RunState :
        ApiUpdate("updateRunStatus", id, updateRunStatus(readState, id, status),
                  updateRunStatusResult(readState, id), status)

ApiUpdateRunSessionId ==
    \E id \in ApiIds, sessionId \in Sessions :
        ApiUpdate("updateRunSessionId", id, updateRunSessionId(readState, id, sessionId),
                  IF Found(readState, id) THEN "true" ELSE "false", sessionId)

ApiRecordItemSuccess ==
    \E id \in ApiIds :
        ApiUpdate("recordItemSuccess", id, recordItemSuccess(readState, id), "void", "")

ApiRecordItemFailure ==
    \E id \in ApiIds, reason \in Reasons :
        ApiUpdate("recordItemFailure", id, recordItemFailure(readState, id, reason), "void", reason)

\* initializeStateFile, called directly.
ApiInitializeStateFile ==
    /\ ret.k < MaxCalls
    /\ IF fileState = "absent"
       THEN WriteNow(EmptyRuns)
       ELSE UNCHANGED <<fileState, fileRuns>>
    /\ Returned("initializeStateFile", NoId, FALSE, "void", 0, "")
    /\ UNCHANGED <<clock, pc, phase, buf, rid, items, resp, list, idx, acquired, closes,
                   note, notified, ack, isolated, co, faulty, copy, summary, req, API_KEY, page>>

NextStore ==
    \/ ApiInitializeStateFile
    \/ ApiCreateRun
    \/ ApiGetRun
    \/ ApiUpdateRunStatus
    \/ ApiUpdateRunSessionId
    \/ ApiRecordItemSuccess
    \/ ApiRecordItemFailure

\* data/runs.json when the first function is called: missing, empty, or not JSON.
Unreadable ==
    {"absent", "empty", "corrupt"}

InitStoreFile ==
    /\ fileState \in Unreadable
    /\ fileRuns = EmptyRuns
    /\ clock = 0

InitStore ==
    /\ InitStoreFile /\ InitProcs
    /\ isolated = FALSE /\ faulty = FALSE /\ API_KEY = ConfiguredKey

InitStoreFaulty ==
    /\ InitStoreFile /\ InitProcs
    /\ isolated = FALSE /\ faulty = TRUE /\ API_KEY = ConfiguredKey

\* The store API on its own, called by one process.
SpecStore ==
    InitStore /\ [][NextStore]_vars

\* The store API on its own, on a file system where fs.writeFileSync may throw.
SpecStoreFaulty ==
    InitStoreFaulty /\ [][NextStore]_vars

\* Trigger requests and item-processing scripts.
NextShopping ==
    \/ Boot
    \/ \E p \in Procs : Trunc(p)
    \/ \E p \in Procs : Flush(p)
    \/ \E p \in Procs : StatusCall(p)
    \/ \E s \in Slots : TriggerRequest(s)
    \/ \E s \in Slots : TrigReadBack(s)
    \/ \E s \in Slots : TrigLaunch(s)
    \/ \E s \in Slots : ShopStart(s)
    \/ \E s \in Slots : ShopAcquire(s)
    \/ \E s \in Slots : ShopItem(s)
    \/ \E s \in Slots : ShopClose(s)
    \/ \E s \in Slots : ShopExit(s)

\* Checkout requests and checkout scripts.
NextCheckout ==
    \/ \E s \in Slots : CheckoutRequest(s)
    \/ \E s \in Slots : ChkNotify(s)
    \/ \E s \in Slots : ChkLaunch(s)
    \/ \E s \in Slots : CosStart(s)
    \/ \E s \in Slots : CosAcquire(s)
    \/ \E s \in Slots : CosNoPayClose(s)
    \/ \E s \in Slots : CosSteps(s)
    \/ \E s \in Slots : CosClose(s)

Next ==
    NextShopping \/ NextCheckout

\* Several runs at once: the server and the item-processing scripts of different
\* runs share the document, and their store operations interleave.
Spec ==
    Init /\ [][NextShopping]_vars

\* One run, driven by its own handlers and scripts through its whole lifecycle.
SpecSolo ==
    InitSolo /\ [][Next]_vars

\* The record of a run that has reached the given status: its one item is counted as
\* added once the run is past the item loop.
RunIn(id, status) ==
    [NewRun(id, <<MapItem("milk")>>, 0) EXCEPT
        !.status = status,
        !.successCount = IF status \in {"pending", "running", "processing_failed"} THEN 0 ELSE 1]

\* The store holds no run or one run, in any status; checkout requests and checkout
\* scripts name the id of that run.
InitCliRun ==
    /\ fileState = "valid"
    /\ \E status \in RunState \cup {"none"} :
         fileRuns = IF status = "none" THEN EmptyRuns
                    ELSE Put(EmptyRuns, RunIdOf(0, 0), RunIn(RunIdOf(0, 0), status))
    /\ clock = 0
    /\ pc = [p \in Procs |-> IF p[1] \in {"trig", "chk"} THEN "idle" ELSE "off"]
    /\ phase = [p \in Procs |-> "call"]
    /\ buf = [p \in Procs |-> EmptyRuns]
    /\ rid = [s \in Slots |-> IF s = 1 THEN RunIdOf(0, 0) ELSE NoId]
    /\ items = [s \in Slots |-> <<>>]
    /\ resp = [p \in Procs |-> 0]
    /\ list = [s \in Slots |-> <<>>]
    /\ idx = [s \in Slots |-> 1]
    /\ acquired = [p \in Procs |-> FALSE]
    /\ closes = [p \in Procs |-> 0]
    /\ note = [p \in Procs |-> ""]
    /\ notified = [s \in Slots |-> {}]
    /\ ack = fileRuns
    /\ ret = NoRet
    /\ co = [s \in Slots |-> NoAttempt]
    /\ faulty = FALSE
    /\ isolated = TRUE
    /\ copy = <<>>
    /\ summary = NoSummary
    /\ req = NoReq
    /\ page = NoPage

InitCli ==
    InitCliRun /\ API_KEY = ConfiguredKey

NextCli ==
    \/ \E p \in Procs : Trunc(p)
    \/ \E p \in Procs : Flush(p)
    \/ \E p \in Procs : StatusCall(p)
    \/ NextCheckout
    \/ \E s \in Slots : CosDirect(s)

\* Checkout requests and checkout scripts, the script also started from the command
\* line, for a run in any status and for a run the store does not hold.
SpecCli ==
    InitCli /\ [][NextCli]_vars

\* ------------------------------------------------ the ShoppingList, called directly
\* One caller uses a ShoppingList made by `new ShoppingList()`: list[1] holds its item
\* objects in order, ret the call made last.
ProductStatus ==
    {"PENDING", "ADDED", "NOT_FOUND", "ERROR", "OUT_OF_STOCK"}

Notes ==
    {"", "substituted"}

MaxListCalls ==
    5

\* addProduct: push({name, quantity, status: PENDING}).
addProduct(l, name) ==
    Append(l, [name |-> name, status |-> "PENDING", notes |-> ""])

\* getAllItems: [...this.items], a new array whose elements are the item objects of the
\* list themselves; element i refers to the object at position i.
getAllItems(l) ==
    [i \in 1 .. Len(l) |-> i]

\* `items[j].status = status` by the caller, on the object the reference leads to.
AssignStatus(l, ref, status) ==
    [l EXCEPT ![ref].status = status]

ListCalled(op, n, arg) ==
    ret' = [op |-> op, id |-> NoId, found |-> FALSE, out |-> "void", n |-> n, arg |-> arg,
            k |-> ret.k + 1]

ListAddProduct ==
    /\ ret.k < MaxListCalls
    /\ Len(list[1]) < MaxItems
    /\ list' = [list EXCEPT ![1] = addProduct(@, "milk")]
    /\ ListCalled("addProduct", 0, "")
    /\ UNCHANGED <<fileState, fileRuns, clock, pc, phase, buf, rid, items, resp, idx,
                   acquired, closes, note, notified, ack, isolated, co, faulty, copy,
                   summary, req, API_KEY, page>>

\* updateStatus(index, status, notes), index counted from 0.
ListUpdateStatus ==
    /\ ret.k < MaxListCalls
    /\ \E index \in -1 .. MaxItems, status \in ProductStatus, notes \in Notes :
         /\ list' = [list EXCEPT ![1] = updateStatus(@, index + 1, status, notes)]
         /\ ListCalled("updateStatus", index, status)
    /\ UNCHANGED <<fileState, fileRuns, clock, pc, phase, buf, rid, items, resp, idx,
                   acquired, closes, note, notified, ack, isolated, co, faulty, copy,
                   summary, req, API_KEY, page>>

ListGetAllItems ==
    /\ ret.k < MaxListCalls
    /\ copy' = getAllItems(list[1])
    /\ ListCalled("getAllItems", 0, "")
    /\ UNCHANGED <<fileState, fileRuns, clock, pc, phase, buf, rid, items, resp, list, idx,
                   acquired, closes, note, notified, ack, isolated, co, faulty,
                   summary, req, API_KEY, page>>

\* The caller assigns the status of an element of the array getAllItems returned.
ListAssignOnCopy ==
    /\ ret.k < MaxListCalls
    /\ \E j \in 1 .. Len(copy), status \in ProductStatus :
         /\ list' = [list EXCEPT ![1] = AssignStatus(@, copy[j], status)]
         /\ ListCalled("assign", j - 1, status)
    /\ UNCHANGED <<fileState, fileRuns, clock, pc, phase, buf, rid, items, resp, idx,
                   acquired, closes, note, notified, ack, isolated, co, faulty, copy,
                   summary, req, API_KEY, page>>

ListGetSummary ==
    /\ ret.k < MaxListCalls
    /\ summary' = getSummary(list[1])
    /\ ListCalled("getSummary", 0, "")
    /\ UNCHANGED <<fileState, fileRuns, clock, pc, phase, buf, rid, items, resp, list, idx,
                   acquired, closes, note, notified, ack, isolated, co, faulty, copy,
                   req, API_KEY, page>>

InitList ==
    /\ fileState = "absent" /\ fileRuns = EmptyRuns /\ clock = 0
    /\ InitProcs
    /\ isolated = FALSE /\ faulty = FALSE /\ API_KEY = ConfiguredKey

NextList ==
    \/ ListAddProduct
    \/ ListUpdateStatus
    \/ ListGetAllItems
    \/ ListAssignOnCopy
    \/ ListGetSummary

\* A ShoppingList on its own, used by one caller.
SpecList ==
    InitList /\ [][NextList]_vars

\* ------------------------------------------------ server: the API key
\* Values of the `key` query parameter.
Keys ==
    {NoKey, "", "k1", "k2"}

\* Values of the x-api-key header.
HeaderKeys ==
    {NoKey, "k1"}

\* Values of API_KEY: not set, set to the empty string, set.
EnvKeys ==
    {NoKey, "", ConfiguredKey}

Falsy ==
    {NoKey, ""}

\* req.query.key || req.headers['x-api-key']
PresentedKey(query, header) ==
    IF query \notin Falsy THEN query ELSE header

\* validateApiKey: 500 when no key is configured, 401 when the keys differ, otherwise
\* next() (0: no response yet).
validateApiKey(apiKey, expected) ==
    IF expected \in Falsy THEN 500
    ELSE IF apiKey # expected THEN 401
    ELSE 0

\* A request to /trigger-shopping-run or /checkout/:runId goes through validateApiKey.
Request(route, query, header) ==
    /\ ~ServerBusy
    /\ LET code == validateApiKey(PresentedKey(query, header), API_KEY)
       IN  req' = [route |-> route, query |-> query, header |-> header,
                   stage |-> IF code = 0 THEN "passed" ELSE "refused", code |-> code]
    /\ UNCHANGED <<fileState, fileRuns, clock, ret, pc, phase, buf, rid, items, resp, list,
                   idx, acquired, closes, note, notified, ack, isolated, co, faulty, copy,
                   summary, API_KEY, page>>

\* The handler of /trigger-shopping-run, reached through next().
AuthTriggerRequest(s) ==
    /\ req.route = "trigger" /\ req.stage = "passed"
    /\ TriggerRequest(s)

\* The handler of /checkout/:runId, reached through next().
AuthCheckoutRequest(s) ==
    /\ req.route = "checkout" /\ req.stage = "passed"
    /\ CheckoutRequest(s)

\* GET /run of the earlier server: `apiKey !== process.env.API_KEY` on the query
\* parameter alone, then execSync('node dist/target_shopping_list.js &').
LegacyRun(query, header) ==
    /\ ~ServerBusy
    /\ \E ok \in BOOLEAN :
         req' = [route |-> "run", query |-> query, header |-> header,
                 stage |-> IF query # API_KEY THEN "refused"
                           ELSE IF ok THEN "launched" ELSE "failed",
                 code |-> IF query # API_KEY THEN 401 ELSE IF ok THEN 202 ELSE 500]
    /\ UNCHANGED <<fileState, fileRuns, clock, ret, pc, phase, buf, rid, items, resp, list,
                   idx, acquired, closes, note, notified, ack, isolated, co, faulty, copy,
                   summary, API_KEY, page>>

InitAuth ==
    InitCliRun /\ API_KEY \in EnvKeys

NextAuth ==
    \/ \E route \in {"trigger", "checkout"}, query \in Keys, header \in HeaderKeys :
          Request(route, query, header)
    \/ \E query \in Keys, header \in HeaderKeys : LegacyRun(query, header)
    \/ \E s \in Slots : AuthTriggerRequest(s)
    \/ \E s \in Slots : AuthCheckoutRequest(s)
    \/ \E s \in Slots : TrigReadBack(s)
    \/ \E s \in Slots : TrigLaunch(s)
    \/ \E s \in Slots : ChkNotify(s)
    \/ \E s \in Slots : ChkLaunch(s)
    \/ \E p \in Procs : Trunc(p)
    \/ \E p \in Procs : Flush(p)
    \/ \E p \in Procs : StatusCall(p)

\* The server and its requests, with and without keys, for each setting of API_KEY;
\* the scripts the handlers launch are not followed.
SpecAuth ==
    InitAuth /\ [][NextAuth]_vars

\* ------------------------------------------------ the automation functions, step by step
\* One caller uses one browser page: it calls searchAndAddToCart and processCheckout one
\* after the other, each call running action by action to its return.  page holds the
\* call in progress: the page actions completed, what the URL of the page contains, what
\* the extractions found, and the result once the function has returned.
\* The page actions of searchAndAddToCart and getCartInfo, each with the wait after it.
SearchSteps ==
    <<"goto", "search", "extract_results", "click_product", "extract_stock", "add_to_cart",
      "cart_info">>

\* A searchAndAddToCart whose try block ends before getCartInfo.
TryStepsBeforeCartInfo ==
    {"goto", "search", "extract_results", "click_product", "extract_stock", "add_to_cart"}

\* The page actions inside the try block of searchAndAddToCart (lines 35-103).
TrySteps ==
    {"goto", "search", "extract_results", "click_product", "extract_stock", "add_to_cart",
     "cart_info"}

\* error.message of what a page action throws.
ErrorMessages ==
    {"", "timeout"}

\* errorMessage and statusMessage of an extraction; "" stands for a missing one too.
ExtractMessages ==
    {"", "sold out"}

\* What searchAndAddToCart returns when the step has completed, found telling what an
\* extraction found: [status, message], or "none" in status while it goes on.
ReturnAfter(step, found, message) ==
    IF step = "extract_results" /\ ~found
    THEN [status |-> "NOT_FOUND",
          message |-> IF message # "" THEN message ELSE "No results found"]
    ELSE IF step = "extract_stock" /\ ~found
    THEN [status |-> "OUT_OF_STOCK", message |-> message]
    ELSE IF step = "cart_info" THEN [status |-> "ADDED", message |-> ""]
    ELSE [status |-> "none", message |-> ""]

\* The function the page ran last has returned or thrown, or none was called.
PageFree ==
    page.fn = "none" \/ page.result # "none" \/ page.threw

PageSearchCall ==
    /\ PageFree
    /\ page' = [NoPage EXCEPT !.fn = "searchAndAddToCart"]
    /\ UNCHANGED <<fileState, fileRuns, clock, ret, pc, phase, buf, rid, items, resp, list,
                   idx, acquired, closes, note, notified, ack, isolated, co, faulty, copy,
                   summary, req, API_KEY>>

\* One page action of searchAndAddToCart: it throws, and the catch block returns ERROR
\* with the message of the error, or it completes.
PageSearchStep ==
    /\ page.fn = "searchAndAddToCart" /\ ~PageFree
    /\ LET step == SearchSteps[Len(page.done) + 1]
       IN  \/ \E m \in ErrorMessages :
                 page' = IF step \in TrySteps
                         THEN [page EXCEPT !.result = "ERROR", !.message = m]
                         ELSE [page EXCEPT !.threw = TRUE, !.message = m]
           \/ \E found \in BOOLEAN, m \in ExtractMessages :
                 /\ step \notin {"extract_results", "extract_stock"} => found /\ m = ""
                 /\ page' = [page EXCEPT
                                !.done = Append(@, step),
                                !.hasResults = IF step = "extract_results" THEN found ELSE @,
                                !.inStock = IF step = "extract_stock" THEN found ELSE @,
                                !.result = ReturnAfter(step, found, m).status,
                                !.message = ReturnAfter(step, found, m).message]
    /\ UNCHANGED <<fileState, fileRuns, clock, ret, pc, phase, buf, rid, items, resp, list,
                   idx, acquired, closes, note, notified, ack, isolated, co, faulty, copy,
                   summary, req, API_KEY>>

\* Values of window.location.href, by the two substrings processCheckout looks for.
Urls ==
    [cart : BOOLEAN, checkout : BOOLEAN]

\* currentUrl.includes("/cart") && !currentUrl.includes("/checkout")
StillOnCartFirst(url) ==
    url.cart /\ ~url.checkout

\* window.location.href.includes("/cart")
StillOnCartSecond(url) ==
    url.cart

\* The page actions of processCheckout that can lead to another URL.
Navigations ==
    {"goto_cart", "click_1", "click_2", "click_3"}

\* The step processCheckout executes after the steps in done, on a page with this URL;
\* "return_true" and "return_false" end it.
CheckoutNext(done, url, completeOrder) ==
    LET last == IF done = <<>> THEN "" ELSE done[Len(done)]
    IN  CASE last = "" -> "goto_cart"
          [] last = "goto_cart" -> "click_1"
          [] last = "click_1" -> "eval_1"
          [] last = "eval_1" -> (IF StillOnCartFirst(url) THEN "click_2" ELSE "eval_2")
          [] last = "click_2" -> "eval_2"
          [] last = "eval_2" -> (IF StillOnCartSecond(url) THEN "click_3" ELSE "check_page")
          [] last = "click_3" -> "check_page"
          [] last = "check_page" -> (IF url.checkout THEN "fill_card" ELSE "return_false")
          [] last = "fill_card" -> "save_and_continue"
          [] last = "save_and_continue" ->
                (IF PlacesOrder(completeOrder) THEN "place_order" ELSE "return_true")
          [] last = "place_order" -> "return_true"

\* processCheckout(runId, stagehand, paymentDetails), for the run of slot 1.
PageCheckoutCall ==
    /\ PageFree
    /\ \E completeOrder \in BOOLEAN :
         page' = [NoPage EXCEPT !.fn = "processCheckout", !.completeOrder = completeOrder]
    /\ UNCHANGED <<fileState, fileRuns, clock, ret, pc, phase, buf, rid, items, resp, list,
                   idx, acquired, closes, note, notified, ack, isolated, co, faulty, copy,
                   summary, req, API_KEY>>

\* One step of processCheckout.  A page action throws, and the catch block marks the run
\* checkout_failed and returns false; or it completes, a navigation leaving the page at
\* some URL.  At its end the function marks the run checkout_complete and returns true,
\* or returns false from the check of the page.
PageCheckoutStep ==
    /\ page.fn = "processCheckout" /\ ~PageFree
    /\ LET step == CheckoutNext(page.done, page.url, page.completeOrder)
           id == rid[1]
       IN  \/ /\ step \notin {"return_true", "return_false"}
              /\ \E m \in ErrorMessages :
                    page' = [page EXCEPT !.result = "false", !.message = m]
              /\ IF Found(readState, id)
                 THEN WriteNow(updateRunStatus(readState, id, "checkout_failed"))
                 ELSE UNCHANGED <<fileState, fileRuns>>
           \/ /\ step \notin {"return_true", "return_false"}
              /\ \E url \in Urls :
                    /\ step \notin Navigations => url = page.url
                    /\ page' = [page EXCEPT !.done = Append(@, step), !.url = url]
              /\ UNCHANGED <<fileState, fileRuns>>
           \/ /\ step = "return_false"
              /\ page' = [page EXCEPT !.result = "false"]
              /\ UNCHANGED <<fileState, fileRuns>>
           \/ /\ step = "return_true"
              /\ page' = [page EXCEPT !.result = "true"]
              /\ IF Found(readState, id)
                 THEN WriteNow(updateRunStatus(readState, id, "checkout_complete"))
                 ELSE UNCHANGED <<fileState, fileRuns>>
    /\ UNCHANGED <<clock, ret, pc, phase, buf, rid, items, resp, list, idx, acquired, closes,
                   note, notified, ack, isolated, co, faulty, copy, summary, req, API_KEY>>

InitPage ==
    InitCliRun /\ API_KEY = ConfiguredKey

NextPage ==
    \/ PageSearchCall
    \/ PageSearchStep
    \/ PageCheckoutCall
    \/ PageCheckoutStep

\* The automation functions on their own, for every behaviour of the page.
SpecPage ==
    InitPage /\ [][NextPage]_vars

\* ------------------------------------------------ server: checkout requests for one run
\* The store holds one run, in any status; the two checkout handlers followed serve
\* requests for that same run, and each launches its own checkout script.
InitSameRun ==
    /\ fileState = "valid"
    /\ \E status \in RunState :
         fileRuns = Put(EmptyRuns, RunIdOf(0, 0), RunIn(RunIdOf(0, 0), status))
    /\ clock = 0
    /\ pc = [p \in Procs |-> IF p[1] \in {"trig", "chk"} THEN "idle" ELSE "off"]
    /\ phase = [p \in Procs |-> "call"]
    /\ buf = [p \in Procs |-> EmptyRuns]
    /\ rid = [s \in Slots |-> RunIdOf(0, 0)]
    /\ items = [s \in Slots |-> <<>>]
    /\ resp = [p \in Procs |-> 0]
    /\ list = [s \in Slots |-> <<>>]
    /\ idx = [s \in Slots |-> 1]
    /\ acquired = [p \in Procs |-> FALSE]
    /\ closes = [p \in Procs |-> 0]
    /\ note = [p \in Procs |-> ""]
    /\ notified = [s \in Slots |-> {}]
    /\ ack = fileRuns
    /\ ret = NoRet
    /\ co = [s \in Slots |-> NoAttempt]
    /\ copy = <<>>
    /\ summary = NoSummary
    /\ req = NoReq
    /\ page = NoPage
    /\ isolated = FALSE /\ faulty = FALSE /\ API_KEY = ConfiguredKey

NextSameRun ==
    \/ \E p \in Procs : Trunc(p)
    \/ \E p \in Procs : Flush(p)
    \/ \E p \in Procs : StatusCall(p)
    \/ NextCheckout

\* Checkout requests for one run, interleaved at the awaits of their handlers, and the
\* checkout scripts they launch.
SpecSameRun ==
    InitSameRun /\ [][NextSameRun]_vars

\* ------------------------------------------------ properties of one run
\* The graph of section 4.2 of the specification, with the rollback edge.
StatusEdges ==
    {<<"pending", "running">>, <<"running", "cart_ready">>,
     <<"running", "processing_failed">>, <<"cart_ready", "checkout_started">>,
     <<"checkout_started", "checkout_complete">>,
     <<"checkout_started", "checkout_failed">>, <<"checkout_started", "cart_ready">>}

StatusOf(s) ==
    fileRuns[rid[s]].status

Stored(s) ==
    fileState = "valid" /\ rid[s] # NoId /\ Found(fileRuns, rid[s])

\* C1: for a run created by the trigger endpoint and driven only by its item-processing
\* script and the checkout endpoint and script, every change of the persisted status is
\* one of the seven edges of StatusEdges: nothing leaves processing_failed,
\* checkout_complete or checkout_failed, and cart_ready never becomes processing_failed.
StatusFollowsEdges ==
    [][\A id \in (DOMAIN fileRuns) \cap (DOMAIN fileRuns') :
          fileRuns'[id].status # fileRuns[id].status =>
              <<fileRuns[id].status, fileRuns'[id].status>> \in StatusEdges]_vars

\* The endpoint advanced a run to checkout_started, announced the checkout, failed to
\* launch the script and rolled the run back to cart_ready.
RolledBackToCartReady ==
    \E s \in Slots :
        /\ Stored(s)
        /\ StatusOf(s) = "cart_ready"
        /\ pc[P("chk", s)] = "idle"
        /\ resp[P("chk", s)] = 500
        /\ "checkout_initiated" \in notified[s]

\* C2: whatever outcomes the items of a run get, the loop that no exception escapes
\* ends (the step from "finalize" to "close") with the run stored as cart_ready, with
\* successCount the number of items reported ADDED and successCount + failureCount
\* the number of items of the run.
LoopEndsCartReady ==
    [][\A s \in Slots :
          (pc[P("shop", s)] = "finalize" /\ pc'[P("shop", s)] = "close") =>
              /\ fileState' = "valid" /\ Found(fileRuns', rid[s])
              /\ fileRuns'[rid[s]].status = "cart_ready"
              /\ fileRuns'[rid[s]].successCount = getSummary(list[s]).added
              /\ fileRuns'[rid[s]].successCount + fileRuns'[rid[s]].failureCount
                     = Len(fileRuns'[rid[s]].items)
              /\ Len(fileRuns'[rid[s]].items) = Len(list[s])]_vars

\* The loop has ended for a run of MaxItems items of which none was added.
AllFailedCartReady ==
    \E s \in Slots :
        /\ pc[P("shop", s)] = "close"
        /\ Stored(s)
        /\ StatusOf(s) = "cart_ready"
        /\ Len(list[s]) = MaxItems
        /\ getSummary(list[s]).failed = MaxItems
        /\ fileRuns[rid[s]].successCount = 0
        /\ fileRuns[rid[s]].failureCount = MaxItems

Scripts ==
    {p \in Procs : p[1] \in {"shop", "cos"}}

\* C10: a script never invokes stagehand.close() twice, never without having acquired
\* the browser, and a script that acquired it and has ended invoked it exactly once.
ClosedExactlyOnce ==
    \A p \in Scripts :
        /\ closes[p] <= 1
        /\ closes[p] = 1 => acquired[p]
        /\ (pc[p] = "done" /\ acquired[p]) => closes[p] = 1

\* Both scripts of a run have ended after acquiring the browser, the checkout script
\* with the run marked checkout_failed and no checkout notification (the exits through
\* the incomplete-payment path and through a false result of processCheckout).
BothScriptsClosed ==
    \E s \in Slots :
        /\ pc[P("shop", s)] = "done" /\ acquired[P("shop", s)]
        /\ pc[P("cos", s)] = "done" /\ acquired[P("cos", s)]
        /\ closes[P("shop", s)] = 1 /\ closes[P("cos", s)] = 1
        /\ Stored(s) /\ StatusOf(s) = "checkout_failed"
        /\ "checkout_failed" \notin notified[s]

\* ------------------------------------------------ properties of the shared document
\* The runs followed have different ids.
DistinctIds ==
    \A s, t \in Slots : (s # t /\ rid[s] # NoId) => rid[s] # rid[t]

\* C3: from one state of the store to the next, successCount and failureCount of a run
\* never decrease, and their sum never exceeds the number of items of the run, also
\* while the server and the scripts of other runs write the store (stated for runs
\* whose ids differ).
CountersNeverDecrease ==
    [][DistinctIds' =>
          \A id \in (DOMAIN fileRuns) \cap (DOMAIN fileRuns') :
              /\ fileRuns'[id].successCount >= fileRuns[id].successCount
              /\ fileRuns'[id].failureCount >= fileRuns[id].failureCount
              /\ fileRuns'[id].successCount + fileRuns'[id].failureCount
                     <= Len(fileRuns'[id].items)]_vars

\* createRun has returned the id of slot s to the trigger handler.
Created(s) ==
    rid[s] # NoId /\ pc[P("trig", s)] # "create"

\* C4: once createRun has returned an id, the document holds a record for it in every
\* later state in which the document is complete, whatever the server and the scripts
\* of other runs do in between.
CreatedRunRetrievable ==
    \A s \in Slots :
        (Created(s) /\ fileState = "valid" /\ DistinctIds) => Found(fileRuns, rid[s])

\* The record the last returned operation on run id wrote is not what the complete
\* document holds for it.
Lost(id) ==
    /\ fileState = "valid"
    /\ Found(ack, id)
    /\ ~Found(fileRuns, id) \/ fileRuns[id] # ack[id]

\* Process p holds, for another run than its own, something else than what the last
\* returned operation on that run wrote.
Stale(p, id) ==
    /\ phase[p] = "flush"
    /\ id # rid[p[2]]
    /\ Found(ack, id)
    /\ ~Found(buf[p], id) \/ buf[p][id] # ack[id]

\* C5: when a process completes the write of a read-modify-write operation whose read
\* preceded the return of an operation on another run, that other update is absent
\* from the store after the write.
StaleWriteLosesUpdate ==
    [][\A p \in Procs : \A id \in DOMAIN ack :
          (Stale(p, id) /\ phase'[p] = "call") => Lost(id)']_vars

\* No write is in progress and the document holds, for some run, an older record than
\* the one its last returned operation wrote.
UpdateLost ==
    /\ \A p \in Procs : phase[p] = "call"
    /\ \E id \in DOMAIN ack : Lost(id) /\ Found(fileRuns, id)

\* Process q performs readState in this step.
Reads(q) ==
    /\ phase[q] = "call"
    /\ \/ pc[q] \in StatusPcs[q[1]] /\ (phase'[q] = "trunc" \/ pc'[q] # pc[q])
       \/ q[1] = "trig" /\ pc[q] = "idle" /\ pc'[q] = "create"
       \/ q[1] = "trig" /\ pc[q] = "read_back" /\ pc'[q] # pc[q]
       \/ q[1] = "shop" /\ pc[q] = "start" /\ pc'[q] \in {"acquire", "done"}
       \/ q[1] = "shop" /\ pc[q] = "item" /\ list'[q[2]] # list[q[2]]

\* C6: a read of the store sees the complete collection from before the writes in
\* progress or the complete collection one of them is writing.
ReadsSeeWholeDocument ==
    [][\A q \in Procs :
          (Reads(q) /\ DistinctIds') =>
              \/ readState = fileRuns
              \/ \E p \in Procs \ {q} : phase[p] = "flush" /\ readState = buf[p]]_vars

\* ------------------------------------------------ properties of the store API
\* C7: the ids createRun has returned are pairwise distinct.
RunIdsDistinct ==
    \A s, t \in Slots : (s # t /\ rid[s] # NoId /\ rid[t] # NoId) => rid[s] # rid[t]

\* C8: createRun with an empty item list answers with a validation error and the store
\* holds no record for the id.
EmptyCreateRunRejected ==
    (ret.op = "createRun" /\ ret.n = 0) =>
        ret.out = "ValidationError" /\ ~Found(readState, ret.id)

Lookups ==
    {"getRun", "updateRunStatus", "recordItemSuccess", "recordItemFailure"}

\* C9: getRun, updateRunStatus, recordItemSuccess and recordItemFailure called with an
\* id that is not in the store return normally, leave the file as it is and create
\* no record; getRun returns null and updateRunStatus false.
UnknownIdIsNoOp ==
    [][(ret'.k = ret.k + 1 /\ ret'.op \in Lookups /\ ~Found(readState, ret'.id)) =>
          /\ fileState' = fileState /\ fileRuns' = fileRuns
          /\ ~Found(readState', ret'.id)
          /\ ~ret'.found
          /\ ret'.op = "getRun" => ret'.out = "null"
          /\ ret'.op = "updateRunStatus" => ret'.out = "false"
          /\ ret'.op \in {"recordItemSuccess", "recordItemFailure"} => ret'.out = "void"]_vars

\* updateRunStatus has just answered false for an id that createRun can produce but
\* that the store, which holds another run, does not hold.
UnknownIdAnsweredFalse ==
    /\ ret.op = "updateRunStatus" /\ ret.out = "false"
    /\ ret.id \in RunIds
    /\ fileState = "valid" /\ ~Found(fileRuns, ret.id)
    /\ fileRuns # EmptyRuns

\* ------------------------------------------------ properties of the tasks
\* The script of kind k of slot s, having passed its entry checks, ends in this step.
ScriptEnds(k, s) ==
    /\ pc[P(k, s)] \notin {"off", "start", "done"}
    /\ pc'[P(k, s)] = "done"

\* C11: when an item-processing script that started for an existing run ends, the
\* stored status of the run is not running, and when a checkout script ends it is not
\* checkout_started: every failure, that of acquiring the browser included, has been
\* turned into processing_failed or checkout_failed.
TasksEndSettled ==
    [][\A s \in Slots :
          /\ (ScriptEnds("shop", s) /\ Stored(s)') => StatusOf(s)' # "running"
          /\ (ScriptEnds("cos", s) /\ Stored(s)') => StatusOf(s)' # "checkout_started"]_vars

\* The attempt executes a step in this transition while i steps have completed.
StepAfter(s, i) ==
    /\ pc[P("cos", s)] = "steps"
    /\ Len(co[s].done) = i
    /\ co'[s] # co[s]

\* C12: the place-order step is executed only with completeOrder set, and only when
\* all steps before it have completed without exception, in order, the checkout page
\* reached.
OrderPlacedOnlyWhenAsked ==
    [][\A s \in Slots :
          StepAfter(s, Len(CheckoutSteps)) =>
              /\ co[s].completeOrder
              /\ co[s].done = CheckoutSteps
              /\ co[s].reached /\ ~co[s].threw]_vars

\* The order has been placed.
OrderPlaced ==
    \E s \in Slots :
        /\ pc[P("cos", s)] = "complete"
        /\ co[s].done = Append(CheckoutSteps, "place_order")
        /\ co[s].completeOrder

\* Every step of the sequence has completed and the checkout page was reached.
FullSuccess(c) ==
    /\ ~c.threw
    /\ c.reached
    /\ c.done = IF c.completeOrder THEN Append(CheckoutSteps, "place_order")
                ELSE CheckoutSteps

\* The last status update of a checkout attempt returns in this step.
AttemptEnds(s) ==
    /\ pc[P("cos", s)] \in StatusPcs.cos \ {"mark"}
    /\ pc'[P("cos", s)] \in {"close", "nopay_close"}

\* For the attempts that acquired the browser: the run ends in checkout_complete
\* exactly when every step completed without exception and the checkout page was
\* reached, otherwise in checkout_failed; once a step has thrown or the page was found
\* not reached, no further step is executed.
AttemptEndsByOutcome ==
    [][\A s \in Slots :
          /\ AttemptEnds(s) =>
                /\ Stored(s)'
                /\ StatusOf(s)' = IF FullSuccess(co[s]) THEN "checkout_complete"
                                  ELSE "checkout_failed"
          /\ (co[s].threw \/ ("check_page" \in {co[s].done[i] : i \in DOMAIN co[s].done}
                               /\ ~co[s].reached)) =>
                co'[s] \in {co[s], NoAttempt}]_vars

\* An attempt in which a step after the check of the page threw has ended.
FailedAfterPageReached ==
    \E s \in Slots :
        /\ pc[P("cos", s)] = "close"
        /\ co[s].threw /\ co[s].reached
        /\ Stored(s) /\ StatusOf(s) = "checkout_failed"

\* C13: whenever a checkout script that passed its entry checks ends, the run is in
\* checkout_complete or in checkout_failed.
AttemptEndsCompleteOrFailed ==
    [][\A s \in Slots :
          (ScriptEnds("cos", s) /\ Stored(s)') =>
              StatusOf(s)' \in {"checkout_complete", "checkout_failed"}]_vars

\* C14: a checkout script that ends with the run in checkout_failed has sent a
\* checkout-failed notification for the run.
FailedCheckoutNotified ==
    [][\A s \in Slots :
          (ScriptEnds("cos", s) /\ Stored(s)' /\ StatusOf(s)' = "checkout_failed") =>
              "checkout_failed" \in notified'[s]]_vars

Rejections ==
    {400, 404}

\* C15: the checkout handler goes on only for a stored run in cart_ready, and a request
\* it answers with 404 or 400 changes nothing in the store and starts no script; the
\* checkout script goes on only for a stored run in cart_ready or checkout_started, and
\* otherwise ends without a write and without acquiring the browser.
ChecksGuardCheckout ==
    [][\A s \in Slots :
          /\ (pc[P("chk", s)] = "idle" /\ pc'[P("chk", s)] # "idle") =>
                Stored(s) /\ StatusOf(s) = "cart_ready"
          /\ (pc[P("chk", s)] = "idle" /\ resp'[P("chk", s)] # resp[P("chk", s)]
                 /\ resp'[P("chk", s)] \in Rejections) =>
                /\ fileState' = fileState /\ fileRuns' = fileRuns
                /\ pc'[P("cos", s)] = pc[P("cos", s)]
                /\ ~(Stored(s) /\ StatusOf(s) = "cart_ready")
          /\ (pc[P("cos", s)] = "start" /\ pc'[P("cos", s)] \notin {"start", "done"}) =>
                Stored(s) /\ StatusOf(s) \in {"cart_ready", "checkout_started"}
          /\ (pc[P("cos", s)] = "start" /\ pc'[P("cos", s)] = "done") =>
                /\ fileState' = fileState /\ fileRuns' = fileRuns
                /\ phase'[P("cos", s)] = "call"
                /\ ~acquired'[P("cos", s)]
                /\ ~(Stored(s) /\ StatusOf(s) \in {"cart_ready", "checkout_started"})]_vars

\* The handler has answered 400 and the script has ended at its entry check, for a
\* stored run whose processing failed.
FailedRunRejectedTwice ==
    \E s \in Slots :
        /\ Stored(s) /\ StatusOf(s) = "processing_failed"
        /\ pc[P("chk", s)] = "idle" /\ resp[P("chk", s)] = 400
        /\ pc[P("cos", s)] = "done" /\ ~acquired[P("cos", s)]
        /\ closes[P("cos", s)] = 0

\* C16: the checkout handler enters its rollback only from the launch of the script.
RollbackOnlyAfterLaunchFailure ==
    [][\A s \in Slots :
          (pc'[P("chk", s)] = "rollback" /\ pc[P("chk", s)] # "rollback") =>
              pc[P("chk", s)] = "launch"]_vars

\* C17: whatever the notification of the checkout handler does, the handler goes on to
\* launch the script.
NotificationOutcomeIgnored ==
    [][\A s \in Slots :
          (pc[P("chk", s)] = "notify" /\ pc'[P("chk", s)] # "notify") =>
              pc'[P("chk", s)] = "launch"]_vars

Updates ==
    {"updateRunStatus", "updateRunSessionId", "recordItemSuccess", "recordItemFailure"}

\* C18: while data/runs.json is missing, empty or not parseable, getRun returns null
\* and the updating functions find no run, all returning normally and leaving the file
\* as it is; createRun then returns an id, the file is a valid document that holds
\* exactly the new record, and getRun finds it.
UnreadableDocumentReadsEmpty ==
    [][(ret'.k = ret.k + 1 /\ fileState \in Unreadable) =>
          /\ ret'.op = "getRun" =>
                ret'.out = "null" /\ fileState' = fileState /\ fileRuns' = fileRuns
          /\ ret'.op \in Updates =>
                /\ ~ret'.found /\ ret'.out \in {"false", "void"}
                /\ fileState' = fileState /\ fileRuns' = fileRuns
          /\ ret'.op = "createRun" =>
                /\ ret'.out = "id"
                /\ fileState' = "valid"
                /\ DOMAIN readState' = {ret'.id}
                /\ readState'[ret'.id].id = ret'.id
                /\ readState'[ret'.id].status = "pending"]_vars

\* A run created on an unreadable document has been looked up and found.
CreatedOnUnreadableThenFound ==
    /\ ret.k = 3 /\ ret.op = "getRun" /\ ret.out = "record"
    /\ DOMAIN readState = {ret.id}

\* C19: after createRun has returned, the store holds the record; after updateRunStatus
\* has returned true, the store holds the run with the status passed.
ReturnedChangeIsWritten ==
    /\ ret.op = "createRun" => Found(readState, ret.id)
    /\ (ret.op = "updateRunStatus" /\ ret.out = "true") =>
          Found(readState, ret.id) /\ readState[ret.id].status = ret.arg

OtherFields ==
    {"id", "items", "timestamp", "sessionId", "successCount", "failureCount",
     "failureReasons"}

\* C20: updateRunStatus on a run the store holds, whatever its status, returns true
\* and leaves the run with the status passed, its other fields and the other runs
\* as they were.
UpdateRunStatusSetsAnyStatus ==
    [][(ret'.k = ret.k + 1 /\ ret'.op = "updateRunStatus" /\ Found(readState, ret'.id)) =>
          /\ ret'.out = "true"
          /\ DOMAIN readState' = DOMAIN readState
          /\ readState'[ret'.id].status = ret'.arg
          /\ \A f \in OtherFields : readState'[ret'.id][f] = readState[ret'.id][f]
          /\ \A x \in DOMAIN readState : x # ret'.id => readState'[x] = readState[x]]_vars

\* The second call of the API was an updateRunStatus that returned true: the run, created
\* by the first call and pending, has been set to checkout_complete.
PendingSetToCheckoutComplete ==
    /\ ret.k = 2 /\ ret.op = "updateRunStatus" /\ ret.out = "true"
    /\ ret.arg = "checkout_complete"
    /\ Found(readState, ret.id) /\ readState[ret.id].status = "checkout_complete"

IsPrefix(a, b) ==
    Len(a) <= Len(b) /\ SubSeq(b, 1, Len(a)) = a

\* The call just made was not a createRun that issued the id x again.
Kept(x) ==
    ~(ret'.op = "createRun" /\ ret'.id = x)

SessionIdSetOnce ==
    [][(ret'.k = ret.k + 1 /\ ret'.op # "createRun") =>
          \A x \in DOMAIN readState :
              readState[x].sessionId # NoSession =>
                  Found(readState', x) /\ readState'[x].sessionId = readState[x].sessionId]_vars

CreationFields ==
    {"id", "items", "timestamp"}

InitializedDocumentValid ==
    ret.op = "initializeStateFile" => fileState \in {"valid", "empty"}

\* C25: a request that reached a handler, or that launched a script, carried a key equal
\* to API_KEY, and API_KEY was set.
KeyRequired ==
    req.stage \in {"passed", "launched"} =>
        API_KEY # NoKey /\ API_KEY \in {req.query, req.header}

\* The same for the requests that go through validateApiKey.
KeyRequiredByMiddleware ==
    (req.route \in {"trigger", "checkout"} /\ req.stage = "passed") =>
        API_KEY \in {req.query, req.header} \ Falsy

\* ---------------------------------------------- properties of the ShoppingList
Statuses(l) ==
    [i \in 1 .. Len(l) |-> l[i].status]

\* C26: an assignment to the status of an item obtained from getAllItems leaves the
\* statuses of the list, and with them its summary, as they were.
CopyIsDefensive ==
    [][(ret'.k = ret.k + 1 /\ ret'.op = "assign") =>
          /\ Statuses(list'[1]) = Statuses(list[1])
          /\ getSummary(list'[1]) = getSummary(list[1])]_vars

Failed ==
    {"NOT_FOUND", "ERROR", "OUT_OF_STOCK"}

\* C27: what getSummary returns has total equal to the number of items, failed equal to
\* the number of items in NOT_FOUND, ERROR or OUT_OF_STOCK, and added, failed and
\* pending adding up to total.
SummaryCounts ==
    [][(ret'.k = ret.k + 1 /\ ret'.op = "getSummary") =>
          /\ summary'.total = Len(list[1])
          /\ summary'.failed = Cardinality({i \in 1 .. Len(list[1]) : list[1][i].status \in Failed})
          /\ summary'.added + summary'.failed + summary'.pending = summary'.total]_vars

\* getSummary has returned for a list with one item added and one item failed.
SummaryOfMixedList ==
    /\ ret.op = "getSummary"
    /\ summary = [total |-> 2, added |-> 1, failed |-> 1, pending |-> 0]

\* C28: updateStatus with an index below 0 or at or above the number of items leaves the
\* list as it was; with an index in range it sets the status of the item at that index
\* and leaves every other item, and the number of items, as they were.
UpdateStatusInRangeOnly ==
    [][(ret'.k = ret.k + 1 /\ ret'.op = "updateStatus") =>
          IF ret'.n < 0 \/ ret'.n >= Len(list[1])
          THEN list'[1] = list[1]
          ELSE /\ Len(list'[1]) = Len(list[1])
               /\ list'[1][ret'.n + 1].status = ret'.arg
               /\ list'[1][ret'.n + 1].name = list[1][ret'.n + 1].name
               /\ \A j \in 1 .. Len(list[1]) : j # ret'.n + 1 => list'[1][j] = list[1][j]]_vars

\* updateStatus was called with the index just past the end of a list of two items, one
\* of them already added.
UpdatePastTheEnd ==
    /\ ret.op = "updateStatus" /\ ret.n = 2 /\ ret.arg = "ERROR"
    /\ Len(list[1]) = 2
    /\ Statuses(list[1]) = <<"ADDED", "PENDING">>

\* ---------------------------------------------- properties of the item loop
LoopPcs ==
    {"item", "rec_ok", "rec_fail"}

\* C29: in the loop of the item-processing script the index never goes back; the
\* automation is applied to the item at the index only, which is then PENDING, gets a
\* status other than PENDING and is passed, the other items staying as they are; an item
\* passed without the automation brings no write to the store and no notification; when
\* the loop is left normally no item is PENDING.
LoopVisitsInOrder ==
    [][\A s \in Slots :
          /\ pc[P("shop", s)] \in LoopPcs => idx'[s] \in {idx[s], idx[s] + 1}
          /\ (pc[P("shop", s)] = "item" /\ list'[s] # list[s]) =>
                /\ list[s][idx[s]].status = "PENDING"
                /\ list'[s][idx[s]].status # "PENDING"
                /\ idx'[s] = idx[s] + 1
                /\ Len(list'[s]) = Len(list[s])
                /\ \A j \in 1 .. Len(list[s]) : j # idx[s] => list'[s][j] = list[s][j]
          /\ (pc[P("shop", s)] \in LoopPcs /\ pc[P("shop", s)] # "item") => list'[s] = list[s]
          /\ (pc[P("shop", s)] = "item" /\ idx'[s] = idx[s] + 1 /\ list'[s] = list[s]) =>
                /\ fileRuns' = fileRuns
                /\ phase'[P("shop", s)] = "call"
                /\ note'[P("shop", s)] = ""
          /\ (pc[P("shop", s)] \in LoopPcs /\ pc'[P("shop", s)] = "finalize") =>
                /\ idx'[s] = Len(list'[s]) + 1
                /\ \A j \in 1 .. Len(list'[s]) : list'[s][j].status # "PENDING"]_vars

\* The loop has been left normally over two items, the first added and the second not
\* found.
LoopDoneOverTwoItems ==
    \E s \in Slots :
        /\ pc[P("shop", s)] = "finalize"
        /\ Statuses(list[s]) = <<"ADDED", "NOT_FOUND">>

\* C30: when the item-processing script has written cart_ready and goes on to send the
\* cart-ready notification, the added and total it sends are the successCount and the
\* number of items of the stored run, and the failureCount of the stored run is the
\* number of items of the list in NOT_FOUND, OUT_OF_STOCK or ERROR.
CartReadyCountsMatch ==
    [][\A s \in Slots :
          (pc[P("shop", s)] = "finalize" /\ pc'[P("shop", s)] = "close") =>
              /\ note'[P("shop", s)] = "cart_ready"
              /\ Found(readState', rid[s])
              /\ readState'[rid[s]].status = "cart_ready"
              /\ getSummary(list'[s]).added = readState'[rid[s]].successCount
              /\ getSummary(list'[s]).total = Len(readState'[rid[s]].items)
              /\ readState'[rid[s]].failureCount =
                    Cardinality({j \in 1 .. Len(list'[s]) : list'[s][j].status \in Failed})]_vars

\* The cart-ready notification is about to be sent for a run of two items, one added
\* and one failed.
CartReadyOneOfTwo ==
    \E s \in Slots :
        /\ pc[P("shop", s)] = "close" /\ note[P("shop", s)] = "cart_ready"
        /\ getSummary(list[s]) = [total |-> 2, added |-> 1, failed |-> 1, pending |-> 0]
        /\ Stored(s) /\ StatusOf(s) = "cart_ready"

\* C31: once an exception has escaped the body of the loop of the item-processing
\* script, no item is attempted any more (the list and the index stay as they are, the
\* items from the index on still PENDING, and the counters of the run are those of the
\* items before it); the status update of the catch block leaves the run stored as
\* processing_failed, an error notification follows it, and the script ends with the
\* run in processing_failed.
ExceptionAbortsLoop ==
    [][\A s \in Slots :
          /\ pc[P("shop", s)] = "catch" =>
                /\ list'[s] = list[s] /\ idx'[s] = idx[s]
                /\ pc'[P("shop", s)] \in {"catch", "close"}
                /\ \A j \in idx[s] .. Len(list[s]) : list[s][j].status = "PENDING"
          /\ (pc[P("shop", s)] = "catch" /\ pc'[P("shop", s)] = "close") =>
                /\ Stored(s)' /\ StatusOf(s)' = "processing_failed"
                /\ fileRuns'[rid[s]].successCount + fileRuns'[rid[s]].failureCount
                       = idx[s] - 1
                /\ note'[P("shop", s)] = "error"
          /\ (pc[P("shop", s)] = "close" /\ note[P("shop", s)] = "error") =>
                /\ pc'[P("shop", s)] \in {"close", "done"}
                /\ pc'[P("shop", s)] = "done" =>
                      /\ "error" \in notified'[s]
                      /\ Stored(s)' /\ StatusOf(s)' = "processing_failed"
                      /\ fileRuns'[rid[s]].successCount + fileRuns'[rid[s]].failureCount
                             = idx[s] - 1]_vars

\* The script has ended after an exception at the second of two items, the first one
\* added: the run is in processing_failed with one success and no failure, the error
\* notification sent and the browser closed.
AbortedAtSecondItem ==
    \E s \in Slots :
        /\ pc[P("shop", s)] = "done" /\ closes[P("shop", s)] = 1
        /\ Stored(s) /\ StatusOf(s) = "processing_failed"
        /\ Len(fileRuns[rid[s]].items) = 2
        /\ fileRuns[rid[s]].successCount = 1 /\ fileRuns[rid[s]].failureCount = 0
        /\ notified[s] = {"run_started", "item_added", "error"}

\* ---------------------------------------------- properties of the automation functions
\* C32: whatever the page actions do, throwing included, no exception leaves
\* searchAndAddToCart; what it returns is ADDED, NOT_FOUND, OUT_OF_STOCK or ERROR, and it
\* has returned when its last page action has completed; it returns ADDED only when the
\* extractions found results and found the product in stock and every page action,
\* those of adding to the cart and of reading the cart included, has completed.
SearchNeverThrows ==
    page.fn = "searchAndAddToCart" =>
        /\ ~page.threw
        /\ page.result \in {"none", "ADDED", "NOT_FOUND", "OUT_OF_STOCK", "ERROR"}
        /\ Len(page.done) = Len(SearchSteps) => page.result # "none"
        /\ page.result = "ADDED" =>
              page.hasResults /\ page.inStock /\ page.done = SearchSteps
        /\ page.result = "NOT_FOUND" => ~page.hasResults /\ page.message # ""
        /\ page.result = "OUT_OF_STOCK" => page.hasResults /\ ~page.inStock

\* The reading of the cart, the last page action, threw after the item was put into the
\* cart: the function has returned ERROR.
SearchErrorAtCartInfo ==
    /\ page.fn = "searchAndAddToCart" /\ page.result = "ERROR"
    /\ page.hasResults /\ page.inStock
    /\ page.done = SubSeq(SearchSteps, 1, Len(SearchSteps) - 1)

\* processCheckout completes the page action step in this transition.
Completes(step) ==
    /\ page.fn = "processCheckout" /\ page.result = "none"
    /\ page'.done = Append(page.done, step)

IsClick(step) ==
    step \in {"click_1", "click_2", "click_3"}

\* The ways of clicking the checkout button are used in the order of the code.
ClicksInOrder(done) ==
    SelectSeq(done, IsClick) \in
        {<<>>, <<"click_1">>, <<"click_1", "click_2">>, <<"click_1", "click_3">>,
         <<"click_1", "click_2", "click_3">>}

\* The check of the page found it elsewhere than on the checkout page.
PageNotReached ==
    /\ page.fn = "processCheckout" /\ page.result = "none"
    /\ page.done # <<>> /\ page.done[Len(page.done)] = "check_page"
    /\ ~page.url.checkout

\* C33: the second and the third way of clicking the checkout button are used in order,
\* each only while the page is on the cart page and not on the checkout page; when the
\* check of the page finds it elsewhere than on the checkout page the function returns
\* false without a further page action; the card fields are filled only on the checkout
\* page.
LaterClickOnlyOnCartPage ==
    [][/\ \A step \in {"click_2", "click_3"} :
             Completes(step) => page.url.cart /\ ~page.url.checkout
       /\ page'.fn = "processCheckout" => ClicksInOrder(page'.done)
       /\ (PageNotReached /\ page' # page) =>
             page'.result = "false" /\ page'.done = page.done
       /\ Completes("fill_card") => page.url.checkout /\ page'.url.checkout]_vars

\* The same with the cart page taken as the code takes it for the third way: a URL that
\* contains "/cart".
LaterClickOnlyOnCartUrl ==
    [][/\ \A step \in {"click_2", "click_3"} : Completes(step) => page.url.cart
       /\ Completes("click_2") => ~page.url.checkout
       /\ page'.fn = "processCheckout" => ClicksInOrder(page'.done)
       /\ (PageNotReached /\ page' # page) =>
             page'.result = "false" /\ page'.done = page.done
       /\ Completes("fill_card") => page.url.checkout /\ page'.url.checkout]_vars

\* ---------------------------------------------- properties of concurrent checkout requests
\* The handlers that have passed the status check and have not answered yet.
Advancing ==
    {s \in Slots : pc[P("chk", s)] \in {"advance", "notify", "launch", "rollback"}}

\* The checkout scripts launched so far.
Launched ==
    {s \in Slots : pc[P("cos", s)] # "off"}

\* C34: of the checkout requests for one run, at most one at a time is past the status
\* check; a request passes the check only when the run is stored as cart_ready and goes
\* on to write checkout_started before another request is served; a checkout script is
\* launched only when none was launched before for this stay of the run in cart_ready,
\* and once one is launched the run is not cart_ready again.
OneCheckoutPerCartReady ==
    [][/\ Cardinality(Advancing') <= 1
       /\ \A s \in Slots :
             /\ (s \in Advancing' \ Advancing) =>
                   Stored(s) /\ StatusOf(s) = "cart_ready" /\ Launched = {}
             /\ (pc[P("chk", s)] = "advance" /\ pc'[P("chk", s)] = "notify") =>
                   Stored(s)' /\ StatusOf(s)' = "checkout_started"
             /\ (pc'[P("cos", s)] = "start" /\ pc[P("cos", s)] # "start") =>
                   Launched = {} /\ pc[P("chk", s)] = "launch"
       /\ (Launched' # {} /\ fileState' = "valid") =>
             \A s \in Slots : StatusOf(s)' # "cart_ready"]_vars

\* While one request waits before launching the checkout script, a second request for
\* the run has been refused with 400; no script is launched yet.
SecondRequestRefused ==
    /\ pc[P("chk", 1)] = "launch" /\ "checkout_initiated" \in notified[1]
    /\ pc[P("chk", 2)] = "idle" /\ resp[P("chk", 2)] = 400 /\ "error" \in notified[2]
    /\ Launched = {}
    /\ Stored(1) /\ StatusOf(1) = "checkout_started"

\* ---------------------------------------------- properties of the trigger endpoint
\* C35: a trigger request answered 400 leaves the store, the run ids and the scripts as
\* they were; a request is given a run id only with a body of which at least one item
\* has a name, and only once; the store gains a record only for that id; the
\* item-processing script is launched only by the handler of the request, only when
\* the run is stored as running and no script was launched for it, and the handler then
\* ends; a handler that ends through its catch block leaves the run stored as
\* processing_failed with no script launched, and the run stays so.
TriggerCreatesAndLaunchesOnce ==
    [][\A s \in Slots :
          /\ (resp'[P("trig", s)] = 400 /\ resp[P("trig", s)] # 400) =>
                /\ fileState' = fileState /\ fileRuns' = fileRuns
                /\ rid' = rid /\ items' = items
                /\ pc'[P("shop", s)] = pc[P("shop", s)]
          /\ rid'[s] # rid[s] =>
                /\ rid[s] = NoId /\ pc[P("trig", s)] = "idle"
                /\ Len(items'[s]) >= 1
                /\ \A i \in 1 .. Len(items'[s]) : HasName(items'[s][i])
          /\ DOMAIN fileRuns' \subseteq {rid'[x] : x \in Slots}
          /\ (pc'[P("shop", s)] = "start" /\ pc[P("shop", s)] # "start") =>
                /\ pc[P("trig", s)] = "launch" /\ pc'[P("trig", s)] = "done"
                /\ pc[P("shop", s)] = "off"
                /\ Stored(s) /\ StatusOf(s) = "running"
                /\ fileRuns[rid[s]].items = items[s]
          /\ (pc'[P("trig", s)] = "done" /\ resp'[P("trig", s)] = 500) =>
                /\ pc'[P("shop", s)] = "off"
                /\ "error" \in notified'[s]
                /\ Stored(s)' /\ StatusOf(s)' = "processing_failed"]_vars

\* The launch of the script failed: the handler has answered 500, no script runs, and
\* the run, announced as started, is stored as processing_failed.
LaunchFailedRunSettled ==
    \E s \in Slots :
        /\ pc[P("trig", s)] = "done" /\ resp[P("trig", s)] = 500
        /\ pc[P("shop", s)] = "off"
        /\ notified[s] = {"run_started", "error"}
        /\ Stored(s) /\ StatusOf(s) = "processing_failed"
        /\ Len(fileRuns[rid[s]].items) = MaxItems

\* ---------------------------------------------- properties of the notifications
ItemNotes ==
    {"item_added", "item_failed", "cart_ready"}

\* C36: the item-processing script has a cart-ready, an item-added or an item-failed
\* notification to send only from the return of the write it reports: the run is then
\* stored as cart_ready, or with successCount the number of items added, or with
\* failureCount the number of items failed; such a notification is sent only when the
\* script has it to send; and once the cart-ready notification is sent, the run is
\* stored as cart_ready for as long as no checkout request has been answered or
\* accepted.
NotifiedAfterWritten ==
    [][\A s \in Slots :
          /\ (note'[P("shop", s)] # note[P("shop", s)] /\ note'[P("shop", s)] \in ItemNotes) =>
                /\ Stored(s)'
                /\ note'[P("shop", s)] = "cart_ready" => StatusOf(s)' = "cart_ready"
                /\ note'[P("shop", s)] = "item_added" =>
                      fileRuns'[rid[s]].successCount = CountStatus(list'[s], {"ADDED"})
                /\ note'[P("shop", s)] = "item_failed" =>
                      fileRuns'[rid[s]].failureCount = CountStatus(list'[s], Failed)
          /\ \A kind \in ItemNotes :
                (kind \in notified'[s] /\ kind \notin notified[s]) =>
                    note[P("shop", s)] = kind
          /\ ("cart_ready" \in notified'[s] /\ pc'[P("chk", s)] = "idle"
                 /\ resp'[P("chk", s)] = 0) =>
                Stored(s)' /\ CheckoutAllowed(StatusOf(s)')]_vars

\* After the notifications of an item added, an item failed and the cart ready, a
\* checkout request for the run has passed the status check.
CheckoutAcceptedAfterCartReady ==
    \E s \in Slots :
        /\ {"item_added", "item_failed", "cart_ready"} \subseteq notified[s]
        /\ pc[P("chk", s)] = "advance" /\ resp[P("chk", s)] = 0

\* C37: every run of the store has at most as many failure reasons as failures, and as
\* many when the failures were recorded by the loop of the item-processing script,
\* which passes `result.message || 'Unknown error'`; no reason is empty.
ReasonsMatchFailures ==
    \A id \in DOMAIN readState :
        /\ Len(readState[id].failureReasons) <= readState[id].failureCount
        /\ Len(readState[id].failureReasons) = readState[id].failureCount
        /\ \A i \in 1 .. Len(readState[id].failureReasons) :
              readState[id].failureReasons[i] # ""

\* The same for the functions of the store called directly, with and without a reason.
ReasonsAtMostFailures ==
    \A id \in DOMAIN readState :
        /\ Len(readState[id].failureReasons) <= readState[id].failureCount
        /\ \A i \in 1 .. Len(readState[id].failureReasons) :
              readState[id].failureReasons[i] # ""

\* The loop has recorded a failure whose result carried no message: the reason stored
\* is 'Unknown error'.
FailureWithoutMessageRecorded ==
    \E id \in DOMAIN readState :
        /\ readState[id].failureCount = 1
        /\ readState[id].failureReasons = <<"Unknown error">>

\* C38: an item-processing script that cannot use its hand-off file sends an error
\* notification, creates no shopping list, never acquires the browser and handles no
\* item; when it ends the run is stored as processing_failed with its counters and its
\* failure reasons as they were, and the browser was neither acquired nor closed.
BadHandOffFailsRun ==
    [][\A s \in Slots :
          /\ (pc[P("shop", s)] = "start" /\ pc'[P("shop", s)] = "tmpfail") =>
                "error" \in notified'[s] /\ list'[s] = <<>>
          /\ pc[P("shop", s)] = "tmpfail" =>
                /\ pc'[P("shop", s)] \in {"tmpfail", "done"}
                /\ ~acquired'[P("shop", s)] /\ closes'[P("shop", s)] = 0
                /\ list'[s] = <<>> /\ idx'[s] = idx[s]
                /\ (Stored(s) /\ Stored(s)') =>
                      /\ fileRuns'[rid[s]].successCount = fileRuns[rid[s]].successCount
                      /\ fileRuns'[rid[s]].failureCount = fileRuns[rid[s]].failureCount
                      /\ fileRuns'[rid[s]].failureReasons = fileRuns[rid[s]].failureReasons
          /\ (pc[P("shop", s)] = "tmpfail" /\ pc'[P("shop", s)] = "done") =>
                /\ Stored(s)' /\ StatusOf(s)' = "processing_failed"
                /\ fileRuns'[rid[s]].successCount = 0
                /\ fileRuns'[rid[s]].failureCount = 0]_vars

\* A script launched for a run of MaxItems items has ended for want of its hand-off
\* file: the run is in processing_failed, nothing counted, the browser never acquired.
BadHandOffRunFailed ==
    \E s \in Slots :
        /\ pc[P("shop", s)] = "done" /\ resp[P("trig", s)] = 202
        /\ ~acquired[P("shop", s)] /\ closes[P("shop", s)] = 0
        /\ notified[s] = {"run_started", "error"}
        /\ Stored(s) /\ StatusOf(s) = "processing_failed"
        /\ Len(fileRuns[rid[s]].items) = MaxItems
        /\ fileRuns[rid[s]].successCount + fileRuns[rid[s]].failureCount = 0

====
